---- MODULE Spec2Model ----
(***************************************************************************)
(* Model of the Gemini watermark remover (package watermark).              *)
(*                                                                         *)
(* Numbers.  Mask opacities are float32(max)/65535 in the code, with max a *)
(* 16-bit channel value; the model keeps the numerator max and treats the  *)
(* opacity as the exact rational max/65535.  The float64 channel           *)
(* arithmetic of applyReverseAlpha is carried out in exact rational        *)
(* arithmetic on integers; IEEE rounding differs from it by a relative     *)
(* error of about 1e-7, which can only matter exactly at a rounding tie.   *)
(*                                                                         *)
(* Pixel buffers.  An image.RGBA is [Rect, Stride, base, patch]: the byte  *)
(* Pix[off] is patch[off] when off is in DOMAIN patch, and otherwise the   *)
(* byte BasePix(base, off) of the content the buffer was created with.     *)
(* The pair (base, patch) is kept normalised (no patch entry repeats the   *)
(* base), so two buffers hold the same bytes iff the records are equal.    *)
(***************************************************************************)
EXTENDS Integers, Sequences, FiniteSets, TLC

VARIABLES
    op,        \* name of the last completed single-goroutine operation
    inp,       \* its input
    outp,      \* its result
    heap,      \* the pixel buffers that exist, by object identity
    assets,    \* the embedded reference captures, by size
    keys,      \* the sizes the callers of this run ask for
    target,    \* the cache the callers of this run use
    onceDone,  \* per cache and size: the Once's done flag
    onceMu,    \* per cache and size: the goroutine holding the Once's mutex
    alphaMaps, \* per cache: the map size -> mask
    alphaErrs, \* per cache: the map size -> error
    pc,        \* per goroutine: where it is in getAlphaMap / detectAlphaMap
    frame,     \* per goroutine: the locals of its call
    loads,     \* history: calls of decodeAlphaAsset, per cache and size
    results,   \* history: what the calls returned, per cache and size
    raced,     \* history: the kind of data race that has happened, if any
    crashed,   \* the runtime has stopped the process (fatal error)
    defaultEngine, \* the package's defaultEngine: its Once and its eng
    made,      \* history: per Engine, who constructed it, if anyone has
    used       \* history: the Engines the package-level calls ran on

calcVars == <<op, inp, outp, heap>>

envVars == <<assets, keys, target>>

cacheVars == <<onceDone, onceMu, alphaMaps, alphaErrs, loads>>

procVars == <<pc, frame, results, raced, crashed>>

engVars == <<defaultEngine, made, used>>

vars == <<calcVars, envVars, cacheVars, procVars, engVars>>

----------------------------------------------------------------------------
(* Errors: every Go error value is a record [kind, arg].                   *)

NoErr == [kind |-> "nil", arg |-> 0]

Err(kind, arg) == [kind |-> kind, arg |-> arg]

----------------------------------------------------------------------------
(* image.Point / image.Rectangle, as used by the package.                  *)

Pt(x, y) == [X |-> x, Y |-> y]

\* image.Rectangle{}
ZR == [Min |-> Pt(0, 0), Max |-> Pt(0, 0)]

\* image.Rect: the rectangle with its corners put in canonical order
Rect(x0, y0, x1, y1) ==
    LET ax == IF x0 > x1 THEN x1 ELSE x0
        bx == IF x0 > x1 THEN x0 ELSE x1
        ay == IF y0 > y1 THEN y1 ELSE y0
        by == IF y0 > y1 THEN y0 ELSE y1
    IN  [Min |-> Pt(ax, ay), Max |-> Pt(bx, by)]

Dx(r) == r.Max.X - r.Min.X

Dy(r) == r.Max.Y - r.Min.Y

Empty(r) == r.Min.X >= r.Max.X \/ r.Min.Y >= r.Max.Y

In_maxOnly(r, s) ==
    IF Empty(r) THEN TRUE
    ELSE r.Max.X <= s.Max.X /\ r.Max.Y <= s.Max.Y

\* Rectangle.In: every point of r is in s
In(r, s) ==
    IF Empty(r) THEN TRUE
    ELSE /\ s.Min.X <= r.Min.X /\ r.Max.X <= s.Max.X
         /\ s.Min.Y <= r.Min.Y /\ r.Max.Y <= s.Max.Y

----------------------------------------------------------------------------
(* Placement.                                                              *)

sizeThreshold == 1024

watermarkConfig(size, right, bottom) ==
    [LogoSize |-> size, MarginRight |-> right, MarginBottom |-> bottom]

DetectWatermarkConfig_atLeast(width, height) ==
    IF width >= sizeThreshold /\ height >= sizeThreshold
    THEN watermarkConfig(96, 64, 64)
    ELSE watermarkConfig(48, 32, 32)

DetectWatermarkConfig(width, height) ==
    IF width > sizeThreshold /\ height > sizeThreshold
    THEN watermarkConfig(96, 64, 64)
    ELSE watermarkConfig(48, 32, 32)

\* returns [rect, err]
calculateWatermarkRect(bounds, cfg) ==
    LET x == bounds.Max.X - cfg.MarginRight - cfg.LogoSize
        y == bounds.Max.Y - cfg.MarginBottom - cfg.LogoSize
        rect == Rect(x, y, x + cfg.LogoSize, y + cfg.LogoSize)
    IN  IF ~In(rect, bounds)
        THEN [rect |-> ZR, err |-> Err("out of bounds", 0)]
        ELSE [rect |-> rect, err |-> NoErr]

----------------------------------------------------------------------------
(* Rationals <<numerator, denominator>> with a positive denominator.       *)

Less(a, b) == a[1] * b[2] < b[1] * a[2]

alphaThreshold == <<2, 1000>>

maxAlpha == <<99, 100>>

logoValue == 255

\* the divisor of calculateAlphaMap: the largest 16-bit channel value
alphaScale == 65535

\* the opacity float32(max) / 65535.0 of the mask entry with numerator max
Alpha(max) == <<max, alphaScale>>

----------------------------------------------------------------------------
(* Pixel buffers: image.RGBA.                                              *)

EmptyPatch == [o \in {} |-> 0]

\* the byte at offset off of the content a buffer was created with: the
\* colour base.px, advanced by base.step from each pixel to the next
BasePix(base, off) == (base.px[(off % 4) + 1] + base.step * (off \div 4)) % 256

\* img.Pix[off]
PixAt(img, off) ==
    IF off \in DOMAIN img.patch THEN img.patch[off] ELSE BasePix(img.base, off)

\* image.RGBA.PixOffset
PixOffset(img, x, y) ==
    (y - img.Rect.Min.Y) * img.Stride + (x - img.Rect.Min.X) * 4

\* an RGBA image with bounds r whose pixels hold the content base
RGBAImage(r, base) ==
    [Rect |-> r, Stride |-> 4 * Dx(r), base |-> base, patch |-> EmptyPatch]

----------------------------------------------------------------------------
(* Reverse alpha blending.                                                 *)

clampAlpha_none(alpha) == alpha

\* if alpha > maxAlpha { alpha = maxAlpha }
clampAlpha(alpha) == IF Less(maxAlpha, alpha) THEN maxAlpha ELSE alpha

\* oneMinusAlpha := 1.0 - alpha
oneMinusAlpha(alpha) == <<alpha[2] - alpha[1], alpha[2]>>

\* math.Round of the non-negative rational n/d: halves round away from zero
Round(n, d) == (2 * n + d) \div (2 * d)

reverseChannel_truncate(watermarked, alpha) ==
    LET d == alpha[2] - alpha[1]
        n == watermarked * alpha[2] - alpha[1] * logoValue
    IN  IF d = 0 THEN (IF n > 0 THEN 255 ELSE 0)
        ELSE IF n <= 0 THEN 0
        ELSE IF n >= 255 * d THEN 255
        ELSE n \div d

\* uint8(math.Round(math.Max(0, math.Min(255, original)))) for
\* original = (watermarked - alpha*logoValue) / oneMinusAlpha, with alpha the
\* clamped opacity.  n/d is original; a zero divisor gives +Inf or -Inf
\* (clamped to 255 or 0), and 0/0 gives NaN, whose uint8 conversion is not
\* defined by the language: 0 stands for it here.
reverseChannel(watermarked, alpha) ==
    LET one == oneMinusAlpha(alpha)
        d == one[1]
        n == watermarked * alpha[2] - alpha[1] * logoValue
    IN  IF d = 0 THEN (IF n > 0 THEN 255 ELSE 0)
        ELSE IF n <= 0 THEN 0
        ELSE IF n >= 255 * d THEN 255
        ELSE Round(n, d)

\* the colour channels the inner loop visits: for c := 0; c < 3; c++
colourChannels == 3

skipsPixel_never(alpha) == FALSE

\* if alpha < alphaThreshold { continue }
skipsPixel(alpha) == Less(alpha, alphaThreshold)

writesAllFour(img, alphaMap, rect) ==
    LET stride == Dx(rect)
        cells == {i \in 0..(Dx(rect) * Dy(rect) - 1) : ~skipsPixel(Alpha(alphaMap[i + 1]))}
    IN  {PixOffset(img, rect.Min.X + (i % stride), rect.Min.Y + (i \div stride)) + c :
            i \in cells, c \in 0..3}

\* the offsets of img.Pix that applyReverseAlpha assigns: for every (row, col)
\* of the rectangle whose opacity is not skipped, the bytes offset+c
writtenOffsets(img, alphaMap, rect) ==
    LET stride == Dx(rect)
        cells == {i \in 0..(Dx(rect) * Dy(rect) - 1) : ~skipsPixel(Alpha(alphaMap[i + 1]))}
    IN  {PixOffset(img, rect.Min.X + (i % stride), rect.Min.Y + (i \div stride)) + c :
            i \in cells, c \in 0..(colourChannels - 1)}

\* applyReverseAlpha(img, alphaMap, rect): the buffer after the in-place
\* update.  Distinct (row, col, c) of a rectangle inside img.Rect address
\* distinct bytes and each byte is read only to compute its own new value, so
\* the nested loops amount to one simultaneous assignment; the index row*stride
\* + col of a written byte is recovered from its offset.
applyReverseAlpha(img, alphaMap, rect) ==
    LET stride == Dx(rect)
        origin == PixOffset(img, rect.Min.X, rect.Min.Y)
        written == writtenOffsets(img, alphaMap, rect)
        row(o) == (o - origin) \div img.Stride
        col(o) == ((o - origin) % img.Stride) \div 4
        alpha(o) == clampAlpha(Alpha(alphaMap[row(o) * stride + col(o) + 1]))
        kept == {o \in DOMAIN img.patch : o \notin written}
        pix(o) == IF o \in kept THEN img.patch[o]
                  ELSE reverseChannel(PixAt(img, o), alpha(o))
        differs == {o \in written \cup kept : pix(o) # BasePix(img.base, o)}
    IN  [img EXCEPT !.patch = [o \in differs |-> pix(o)]]

----------------------------------------------------------------------------
(* The embedded reference captures and the masks decoded from them.        *)

\* the files named by the go:embed directive
embeddedAssets == {48, 64, 96}

Max3(c) ==
    LET rg == IF c[2] > c[1] THEN c[2] ELSE c[1]
    IN  IF c[3] > rg THEN c[3] ELSE rg

\* every LogoPitch-th pixel of a "logo" capture is lit
LogoPitch == 23

\* img.At(x, y).RGBA() of the i-th pixel (row-major) of a capture: 16-bit
\* channels.  A "clear" capture stays below alphaThreshold everywhere; the lit
\* pixels of a "logo" capture run through the 8-bit levels, up to full
\* opacity, and the others are as in a clear capture.
\* The captures detection is exercised with are black and white: a "mark"
\* capture has every second pixel white, an "opaque" one every pixel, a
\* "blank" one none, and a "faint" one is the darkest grey everywhere.
CaptureColour(img, i) ==
    IF img.kind = "logo" /\ i % LogoPitch = 0
    THEN <<257 * (((i + img.seed) * 37) % 256), 257 * ((i * 11) % 256), 0>>
    ELSE IF img.kind = "mark"
    THEN IF i % 2 = 0 THEN <<65535, 65535, 65535>> ELSE <<0, 0, 0>>
    ELSE IF img.kind = "opaque" THEN <<65535, 65535, 65535>>
    ELSE IF img.kind = "blank" THEN <<0, 0, 0>>
    ELSE IF img.kind = "faint" THEN <<257, 257, 257>>
    ELSE <<0, 100 * ((i + img.seed) % 2), 0>>

\* max(r, g, b) per pixel, row by row; the entry max stands for max/65535
calculateAlphaMap(img) ==
    LET n == img.Dx * img.Dy
        alphaMap == [i \in 1..n |-> Max3(CaptureColour(img, i - 1))]
    IN  SubSeq(alphaMap, 1, n)

\* returns [alpha, err]; a nil slice is the empty sequence
decodeAlphaAsset(size) ==
    IF size \notin embeddedAssets
    THEN [alpha |-> <<>>, err |-> Err("read", size)]
    ELSE IF ~assets[size].decodable
    THEN [alpha |-> <<>>, err |-> Err("decode", size)]
    ELSE [alpha |-> calculateAlphaMap(assets[size]), err |-> NoErr]

----------------------------------------------------------------------------
(* The mask caches: the fields of an Engine, and the package-level         *)
(* detectAlphaCache, which detectAlphaMap uses in the same way.            *)

Caches == {"detectAlphaCache", "engine"}

\* the keys of the once map, in NewEngine and in detectAlphaCache alike
onceKeys == {48, 96}

\* a Go map: a function on the keys present
EmptyMap == [k \in {} |-> 0]

Put(m, k, v) == [x \in DOMAIN m \cup {k} |-> IF x = k THEN v ELSE m[x]]

\* the map read m[k] of a map of errors: the zero value when k is absent
ErrAt(m, k) == IF k \in DOMAIN m THEN m[k] ELSE NoErr

\* var defaultEngine struct { once sync.Once; eng *Engine }, as declared
NoDefault == [done |-> FALSE, mu |-> 0, eng |-> "nil"]

\* NewEngine(), and the initial value of detectAlphaCache
NewEngine ==
    [alphaMaps |-> EmptyMap, alphaErrs |-> EmptyMap,
     once |-> [k \in onceKeys |-> FALSE]]

mustLoad_always(done, errs, size) == TRUE

mustLoad_retryFailed(done, errs, size) == ~done \/ ErrAt(errs, size) # NoErr

\* whether once.Do runs its function: only while the Once is not done
mustLoad(done, errs, size) == ~done

\* what getAlphaMap / detectAlphaMap return after once.Do, from the two maps
lookupResult(maps, errs, size) ==
    IF ErrAt(errs, size) # NoErr
    THEN [alpha |-> <<>>, err |-> errs[size]]
    ELSE IF size \in DOMAIN maps
    THEN [alpha |-> maps[size], err |-> NoErr]
    ELSE [alpha |-> <<>>, err |-> Err("not available", size)]

\* the cache c as it stands: the fields of the Engine, or of detectAlphaCache
CacheOf(c) ==
    [alphaMaps |-> alphaMaps[c], alphaErrs |-> alphaErrs[c], once |-> onceDone[c]]

\* e.getAlphaMap(size) on the Engine (or cache) value e, run by one goroutine
\* without interruption: [alpha, err] and the fields of e afterwards
Engine_getAlphaMap(e, size) ==
    IF size \notin DOMAIN e.once
    THEN [alpha |-> <<>>, err |-> Err("unsupported size", size),
          maps |-> e.alphaMaps, errs |-> e.alphaErrs,
          done |-> e.once, loaded |-> FALSE]
    ELSE LET run == mustLoad(e.once[size], e.alphaErrs, size)
             got == decodeAlphaAsset(size)
             maps == IF run THEN Put(e.alphaMaps, size, got.alpha) ELSE e.alphaMaps
             errs == IF run THEN Put(e.alphaErrs, size, got.err) ELSE e.alphaErrs
             res == lookupResult(maps, errs, size)
         IN  [alpha |-> res.alpha, err |-> res.err, maps |-> maps, errs |-> errs,
              done |-> [e.once EXCEPT ![size] = TRUE], loaded |-> run]

\* getAlphaMap(size) on the cache c of the state
getAlphaMap(c, size) == Engine_getAlphaMap(CacheOf(c), size)

----------------------------------------------------------------------------
(* Engine.RemoveWatermark.  Images are objects of the heap, named by their *)
(* identity; 0 is the nil image.  The caller's images are held as RGBA     *)
(* content: the 8-bit colours that draw.Draw copies out of them.           *)

\* an identity no object of h has
FreshId(h) == CHOOSE i \in 1..(Cardinality(DOMAIN h) + 1) : i \notin DOMAIN h

cloneToRGBA_alias(h, src) == [id |-> src, heap |-> h]

\* cloneToRGBA(src): image.NewRGBA(bounds), then draw.Draw copies every pixel
\* of src into it.  Returns the identity of the new buffer and the heap with
\* the buffer in it.
cloneToRGBA(h, src) ==
    LET bounds == h[src].Rect
        dst == [Rect |-> bounds, Stride |-> 4 * Dx(bounds),
                base |-> h[src].base, patch |-> h[src].patch]
        id == FreshId(h)
    IN  [id |-> id, heap |-> [i \in DOMAIN h \cup {id} |-> IF i = id THEN dst ELSE h[i]]]

sizeMismatch_shorterOnly(alphaMap, required) == Len(alphaMap) < required

\* if len(alphaMap) != expected: the mask does not cover the rectangle
sizeMismatch(alphaMap, required) == Len(alphaMap) # required

\* e.RemoveWatermark(img) for the Engine value e, on heap h: the image
\* returned (0 for nil), the error, the heap and the cache afterwards
Engine_RemoveWatermark(e, h, img) ==
    LET fail(err, maps, errs, done, loaded) ==
            [img |-> 0, err |-> err, heap |-> h,
             maps |-> maps, errs |-> errs, done |-> done, loaded |-> loaded]
        untouched(err) == fail(err, e.alphaMaps, e.alphaErrs, e.once, FALSE)
    IN  IF img = 0 THEN untouched(Err("nil image", 0))
        ELSE
        LET bounds == h[img].Rect
            width == Dx(bounds)
            height == Dy(bounds)
        IN  IF width <= 0 \/ height <= 0 THEN untouched(Err("invalid dimensions", 0))
            ELSE
            LET cfg == DetectWatermarkConfig(width, height)
                placed == calculateWatermarkRect(bounds, cfg)
            IN  IF placed.err # NoErr THEN untouched(placed.err)
                ELSE
                LET got == Engine_getAlphaMap(e, cfg.LogoSize)
                    expected == Dx(placed.rect) * Dy(placed.rect)
                IN  IF got.err # NoErr
                    THEN fail(got.err, got.maps, got.errs, got.done, got.loaded)
                    ELSE IF sizeMismatch(got.alpha, expected)
                    THEN fail(Err("size mismatch", Len(got.alpha)),
                              got.maps, got.errs, got.done, got.loaded)
                    ELSE
                    LET rgba == cloneToRGBA(h, img)
                        after == applyReverseAlpha(rgba.heap[rgba.id], got.alpha, placed.rect)
                    IN  [img |-> rgba.id, err |-> NoErr,
                         heap |-> [rgba.heap EXCEPT ![rgba.id] = after],
                         maps |-> got.maps, errs |-> got.errs, done |-> got.done,
                         loaded |-> got.loaded]

\* e.RemoveWatermark(img) for the engine held in cache c of the state
RemoveWatermark(c, h, img) == Engine_RemoveWatermark(CacheOf(c), h, img)

----------------------------------------------------------------------------
(* Exact arithmetic for detection.  The float64 quantities of meanLuma and *)
(* scoreWatermark are rationals <<n, d>> in lowest terms with d > 0.       *)

RECURSIVE GCD(_, _)
GCD(a, b) == IF b = 0 THEN a ELSE GCD(b, a % b)

Abs(n) == IF n < 0 THEN -n ELSE n

\* n/d in lowest terms, for d # 0
Q(n, d) ==
    LET g == GCD(Abs(n), Abs(d))
    IN  IF d > 0 THEN <<n \div g, d \div g>> ELSE <<(-n) \div g, (-d) \div g>>

QInt(n) == <<n, 1>>

QAdd(a, b) ==
    IF a[2] = b[2] THEN Q(a[1] + b[1], a[2])
    ELSE LET g == GCD(a[2], b[2])
         IN  Q(a[1] * (b[2] \div g) + b[1] * (a[2] \div g), (a[2] \div g) * b[2])

QSub(a, b) == QAdd(a, <<-b[1], b[2]>>)

QMul(a, b) ==
    LET g1 == GCD(Abs(a[1]), b[2])
        g2 == GCD(Abs(b[1]), a[2])
    IN  IF a[1] = 0 \/ b[1] = 0 THEN <<0, 1>>
        ELSE <<(a[1] \div g1) * (b[1] \div g2), (a[2] \div g2) * (b[2] \div g1)>>

\* a / b for b # 0
QDiv(a, b) ==
    QMul(a, IF b[1] > 0 THEN <<b[2], b[1]>> ELSE <<-b[2], -b[1]>>)

\* the sum of the entries lo..hi of a sequence of rationals, by halves
RECURSIVE QSum(_, _, _)
QSum(s, lo, hi) ==
    IF lo > hi THEN <<0, 1>>
    ELSE IF lo = hi THEN s[lo]
    ELSE LET mid == (lo + hi) \div 2
         IN  QAdd(QSum(s, lo, mid), QSum(s, mid + 1, hi))

----------------------------------------------------------------------------
(* Detection: DetectWatermark, meanLuma, scoreWatermark.                   *)

\* image.Rectangle.Inset(n), for the negative n the package passes
Inset(r, n) ==
    [Min |-> [X |-> r.Min.X + n, Y |-> r.Min.Y + n],
     Max |-> [X |-> r.Max.X - n, Y |-> r.Max.Y - n]]

\* image.Rectangle.Intersect
Intersect(r, s) ==
    LET t == [Min |-> [X |-> IF r.Min.X < s.Min.X THEN s.Min.X ELSE r.Min.X,
                       Y |-> IF r.Min.Y < s.Min.Y THEN s.Min.Y ELSE r.Min.Y],
              Max |-> [X |-> IF r.Max.X > s.Max.X THEN s.Max.X ELSE r.Max.X,
                       Y |-> IF r.Max.Y > s.Max.Y THEN s.Max.Y ELSE r.Max.Y]]
    IN  IF Empty(t) THEN ZR ELSE t

\* image.Point.In
PointIn(x, y, r) ==
    r.Min.X <= x /\ x < r.Max.X /\ r.Min.Y <= y /\ y < r.Max.Y

\* img.At(x, y).RGBA() of an RGBA buffer: the 16-bit r, g, b
At(img, x, y) ==
    LET o == PixOffset(img, x, y)
    IN  <<257 * PixAt(img, o), 257 * PixAt(img, o + 1), 257 * PixAt(img, o + 2)>>

\* 0.2126*r/257 + 0.7152*g/257 + 0.0722*b/257
Luma(c) == Q(2126 * c[1] + 7152 * c[2] + 722 * c[3], 2570000)

\* the pixels meanLuma visits, row by row
Sampled(region, exclude) ==
    LET w == Dx(region)
        n == IF Empty(region) THEN 0 ELSE w * Dy(region)
        all == [i \in 1..n |-> [X |-> region.Min.X + ((i - 1) % w),
                                Y |-> region.Min.Y + ((i - 1) \div w)]]
    IN  SelectSeq(SubSeq(all, 1, n),
                  LAMBDA p : ~(exclude # ZR /\ PointIn(p.X, p.Y, exclude)))

\* meanLuma(img, region, exclude): [mean, count]
meanLuma(img, region, exclude) ==
    LET pts == Sampled(region, exclude)
        count == Len(pts)
        lumas == [i \in 1..count |-> Luma(At(img, pts[i].X, pts[i].Y))]
    IN  IF count = 0 THEN [mean |-> <<0, 1>>, count |-> 0]
        ELSE [mean |-> QDiv(QSum(SubSeq(lumas, 1, count), 1, count), QInt(count)),
              count |-> count]

\* const clearAlphaCutoff = 0.02
clearAlphaCutoff == <<2, 100>>

\* scoreWatermark(img, rect, alphaMap, bgMean): [delta, corr, err, read].
\* corr is [zero, num, alphaVar, resVar]: 0 when zero, and otherwise
\* num / sqrt(alphaVar * resVar); read counts the mask entries read.
scoreWatermark(img, rect, alphaMap, bgMean) ==
    LET fail(err) == [delta |-> <<0, 1>>,
                      corr |-> [zero |-> TRUE, num |-> <<0, 1>>,
                                alphaVar |-> <<0, 1>>, resVar |-> <<0, 1>>],
                      err |-> err, read |-> 0]
        stride == Dx(rect)
        required == Dx(rect) * Dy(rect)
    IN  IF stride <= 0 \/ Dy(rect) <= 0 THEN fail(Err("invalid rectangle", 0))
        ELSE IF sizeMismatch(alphaMap, required)
        THEN fail(Err("size mismatch", Len(alphaMap)))
        ELSE
        LET resF == [i \in 1..required |->
                        QSub(Luma(At(img, rect.Min.X + ((i - 1) % stride),
                                          rect.Min.Y + ((i - 1) \div stride))), bgMean)]
            residuals == SubSeq(resF, 1, required)
            alphaF == [i \in 1..required |-> Q(alphaMap[i], alphaScale)]
            alpha == SubSeq(alphaF, 1, required)
            sumResidual == QSum(residuals, 1, required)
            sumAlpha == QSum(alpha, 1, required)
            sqF == [i \in 1..required |-> QMul(alpha[i], alpha[i])]
            sumAlphaSq == QSum(SubSeq(sqF, 1, required), 1, required)
            clear == SelectSeq(SubSeq([i \in 1..required |-> i], 1, required),
                               LAMBDA i : Less(alpha[i], clearAlphaCutoff))
            clearCount == Len(clear)
            clearF == [k \in 1..clearCount |-> residuals[clear[k]]]
            clearSum == QSum(SubSeq(clearF, 1, clearCount), 1, clearCount)
        IN  IF clearCount = 0 THEN [fail(Err("missing clear pixels", 0)) EXCEPT !.read = required]
            ELSE IF sumAlpha[1] = 0
            THEN [fail(Err("missing opaque pixels", 0)) EXCEPT !.read = required]
            ELSE
            LET clearMean == QDiv(clearSum, QInt(clearCount))
                wF == [i \in 1..required |-> QMul(residuals[i], alpha[i])]
                weightedResidual == QSum(SubSeq(wF, 1, required), 1, required)
                delta == QSub(QDiv(weightedResidual, sumAlpha), clearMean)
                residualMean == QDiv(sumResidual, QInt(required))
                alphaMean == QDiv(sumAlpha, QInt(required))
                numF == [i \in 1..required |->
                            QMul(QSub(alpha[i], alphaMean), QSub(residuals[i], residualMean))]
                numerator == QSum(SubSeq(numF, 1, required), 1, required)
                varF == [i \in 1..required |->
                            LET r == QSub(residuals[i], residualMean) IN QMul(r, r)]
                resVar == QSum(SubSeq(varF, 1, required), 1, required)
                alphaVar == QSub(sumAlphaSq,
                                 QMul(QInt(required), QMul(alphaMean, alphaMean)))
            IN  [delta |-> delta,
                 corr |-> [zero |-> alphaVar[1] = 0 \/ resVar[1] = 0,
                           num |-> numerator, alphaVar |-> alphaVar, resVar |-> resVar],
                 err |-> NoErr, read |-> required]

\* const detectionLumaThreshold = 6.0
detectionLumaThreshold == <<6, 1>>

\* const detectionCorrelationThreshold = 0.20
detectionCorrelationThreshold == <<1, 5>>

\* corr > t for a threshold t > 0, with corr = num / sqrt(alphaVar * resVar)
CorrAbove(corr, t) ==
    /\ ~corr.zero
    /\ corr.num[1] > 0
    /\ Less(QMul(t, t), QMul(QDiv(corr.num, corr.alphaVar), QDiv(corr.num, corr.resVar)))

presentWhen_lumaOnly(score, corr) == Less(detectionLumaThreshold, score)

\* present = score > detectionLumaThreshold && corr > detectionCorrelationThreshold
presentWhen(score, corr) ==
    Less(detectionLumaThreshold, score) /\ CorrAbove(corr, detectionCorrelationThreshold)

\* Info{}
ZeroInfo == [Size |-> 0, Position |-> ZR]

Band_logoSize(cfg) == cfg.LogoSize

\* band := cfg.LogoSize / 3; if band < 8 { band = 8 }
Band(cfg) == IF cfg.LogoSize \div 3 < 8 THEN 8 ELSE cfg.LogoSize \div 3

\* DetectWatermark(img) on heap h with detectAlphaCache as d: [present, score,
\* info, err], the cache afterwards, the steps taken and the mask entries read
DetectWatermark(d, h, img) ==
    LET fail(err, maps, errs, done, loaded, steps) ==
            [present |-> FALSE, score |-> <<0, 1>>, info |-> ZeroInfo, err |-> err,
             maps |-> maps, errs |-> errs, done |-> done, loaded |-> loaded,
             steps |-> steps, read |-> 0, corr |-> "none",
             bgCount |-> -1, outerCount |-> -1]
        untouched(err, steps) == fail(err, d.alphaMaps, d.alphaErrs, d.once, FALSE, steps)
        \* F(x), with x evaluated once
        With(x, F(_)) == CHOOSE r \in {F(v) : v \in {x}} : TRUE
    IN  IF img = 0 THEN untouched(Err("nil image", 0), <<>>)
        ELSE
        LET bounds == h[img].Rect
            width == Dx(bounds)
            height == Dy(bounds)
        IN  IF width <= 0 \/ height <= 0 THEN untouched(Err("invalid dimensions", 0), <<>>)
            ELSE
            LET cfg == DetectWatermarkConfig(width, height)
                placed == calculateWatermarkRect(bounds, cfg)
                rect == placed.rect
                outer == Intersect(Inset(rect, -Band(cfg)), bounds)
            IN  IF placed.err # NoErr THEN untouched(placed.err, <<"place">>)
                ELSE
                With(Engine_getAlphaMap(d, cfg.LogoSize), LAMBDA got :
                    IF got.err # NoErr
                    THEN fail(got.err, got.maps, got.errs, got.done, got.loaded,
                              <<"place", "mask">>)
                    ELSE
                    With(h[img], LAMBDA pic :
                    With(meanLuma(pic, rect, ZR), LAMBDA inner :
                    With(meanLuma(pic, outer, rect), LAMBDA bg :
                    IF inner.count = 0 \/ bg.count = 0
                    THEN [fail(Err("insufficient pixels", 0), got.maps, got.errs,
                               got.done, got.loaded, <<"place", "mask", "band">>)
                            EXCEPT !.bgCount = inner.count, !.outerCount = bg.count]
                    ELSE
                    With(scoreWatermark(pic, rect, got.alpha, bg.mean), LAMBDA scored :
                        IF scored.err # NoErr
                        THEN [fail(scored.err, got.maps, got.errs, got.done, got.loaded,
                                   <<"place", "mask", "band", "score">>)
                                EXCEPT !.read = scored.read,
                                       !.bgCount = inner.count, !.outerCount = bg.count]
                        ELSE [present |-> presentWhen(scored.delta, scored.corr),
                              score |-> scored.delta,
                              info |-> [Size |-> cfg.LogoSize, Position |-> rect],
                              err |-> NoErr,
                              maps |-> got.maps, errs |-> got.errs, done |-> got.done,
                              loaded |-> got.loaded,
                              steps |-> <<"place", "mask", "band", "score">>,
                              read |-> scored.read, corr |-> scored.corr,
                              bgCount |-> inner.count, outerCount |-> bg.count])))))

----------------------------------------------------------------------------
(* The byte and base64 forms.  A byte slice is known by what it holds:     *)
(* nothing, something no decoder accepts, or an image in some format.  A   *)
(* string is known by its data URL prefix and the bytes its body encodes.  *)

\* a nil or empty []byte
NoBytes == [kind |-> "empty"]

\* bytes that are no image
Garbage == [kind |-> "garbage"]

\* the bytes of an image file: the pixels, without the origin of the bounds
ImageBytes(format, img) ==
    [kind |-> "image", format |-> format, Dx |-> Dx(img.Rect), Dy |-> Dy(img.Rect),
     base |-> img.base, patch |-> img.patch]

ImageDecode_firstPixel(data) ==
    IF data.kind # "image"
    THEN [img |-> <<>>, format |-> "", err |-> Err("unknown format", 0)]
    ELSE [img |-> RGBAImage(Rect(0, 0, data.Dx, data.Dy), [data.base EXCEPT !.step = 0]),
          format |-> data.format, err |-> NoErr]

\* Decode(r), image.Decode: [img, format, err]; the bounds start at (0, 0)
ImageDecode(data) ==
    IF data.kind # "image"
    THEN [img |-> <<>>, format |-> "", err |-> Err("unknown format", 0)]
    ELSE [img |-> [RGBAImage(Rect(0, 0, data.Dx, data.Dy), data.base)
                        EXCEPT !.patch = data.patch],
          format |-> data.format, err |-> NoErr]

DecodeImageBytes(data) ==
    IF data.kind = "empty"
    THEN [img |-> <<>>, format |-> "", err |-> Err("empty image data", 0)]
    ELSE ImageDecode(data)

\* EncodePNGToBytes(img): [data, err]; png.Encode rejects an empty image
EncodePNGToBytes(img) ==
    IF Dx(img.Rect) <= 0 \/ Dy(img.Rect) <= 0
    THEN [data |-> NoBytes, err |-> Err("png: invalid image size", 0)]
    ELSE [data |-> ImageBytes("png", img), err |-> NoErr]

\* the heap h with the object obj under a new identity
Allocate(h, obj) ==
    [i \in DOMAIN h \cup {FreshId(h)} |-> IF i \in DOMAIN h THEN h[i] ELSE obj]

\* DetectWatermarkBytes(data): as DetectWatermark, with the heap afterwards
DetectWatermarkBytes(d, h, data) ==
    LET fail(err, steps) ==
            [present |-> FALSE, score |-> <<0, 1>>, info |-> ZeroInfo, err |-> err,
             maps |-> d.alphaMaps, errs |-> d.alphaErrs, done |-> d.once,
             loaded |-> FALSE, steps |-> steps, heap |-> h]
        With(x, F(_)) == CHOOSE r \in {F(v) : v \in {x}} : TRUE
    IN  IF data.kind = "empty" THEN fail(Err("empty image data", 0), <<>>)
        ELSE
        With(DecodeImageBytes(data), LAMBDA dec :
            IF dec.err # NoErr THEN fail(dec.err, <<"decode">>)
            ELSE
            With(Allocate(h, dec.img), LAMBDA h2 :
            With(DetectWatermark(d, h2, FreshId(h)), LAMBDA det :
                [present |-> det.present, score |-> det.score, info |-> det.info,
                 err |-> det.err, maps |-> det.maps, errs |-> det.errs,
                 done |-> det.done, loaded |-> det.loaded,
                 steps |-> <<"decode", "detect">>, heap |-> h2])))

\* what detection answered, when it ran and returned no error
Answer(present) == IF present THEN "present" ELSE "absent"

skipsRemoval_never(present) == FALSE

\* if !present { return nil, false, score, info, nil }
skipsRemoval(present) == ~present

\* RemoveWatermarkBytes(input): [output, present, score, info, err], the
\* detection cache and the heap afterwards, the steps taken in order and what
\* detection answered
RemoveWatermarkBytes(d, h, input) ==
    LET fail(err, maps, errs, done, loaded, steps, h2) ==
            [output |-> NoBytes, present |-> FALSE, score |-> <<0, 1>>,
             info |-> ZeroInfo, err |-> err,
             maps |-> maps, errs |-> errs, done |-> done, loaded |-> loaded,
             steps |-> steps, heap |-> h2, detected |-> "none"]
        With(x, F(_)) == CHOOSE r \in {F(v) : v \in {x}} : TRUE
    IN  IF input.kind = "empty"
        THEN fail(Err("empty image data", 0), d.alphaMaps, d.alphaErrs, d.once, FALSE, <<>>, h)
        ELSE
        With(DecodeImageBytes(input), LAMBDA dec :
            IF dec.err # NoErr
            THEN fail(dec.err, d.alphaMaps, d.alphaErrs, d.once, FALSE, <<"decode">>, h)
            ELSE
            With(Allocate(h, dec.img), LAMBDA h2 :
            With(DetectWatermark(d, h2, FreshId(h)), LAMBDA det :
                IF det.err # NoErr
                THEN fail(det.err, det.maps, det.errs, det.done, det.loaded,
                          <<"decode", "detect">>, h2)
                ELSE IF skipsRemoval(det.present)
                THEN [fail(NoErr, det.maps, det.errs, det.done, det.loaded,
                           <<"decode", "detect">>, h2)
                        EXCEPT !.score = det.score, !.info = det.info,
                               !.detected = Answer(det.present)]
                ELSE
                With(Engine_RemoveWatermark(NewEngine, h2, FreshId(h)), LAMBDA rem :
                    IF rem.err # NoErr
                    THEN [fail(rem.err, det.maps, det.errs, det.done, det.loaded,
                               <<"decode", "detect", "remove">>, rem.heap)
                            EXCEPT !.detected = Answer(det.present)]
                    ELSE
                    With(EncodePNGToBytes(rem.heap[rem.img]), LAMBDA enc :
                        IF enc.err # NoErr
                        THEN [fail(enc.err, det.maps, det.errs, det.done, det.loaded,
                                   <<"decode", "detect", "remove", "encode">>, rem.heap)
                                EXCEPT !.detected = Answer(det.present)]
                        ELSE [output |-> enc.data, present |-> TRUE,
                              score |-> det.score, info |-> det.info, err |-> NoErr,
                              maps |-> det.maps, errs |-> det.errs, done |-> det.done,
                              loaded |-> det.loaded,
                              steps |-> <<"decode", "detect", "remove", "encode">>,
                              heap |-> rem.heap, detected |-> Answer(det.present)])))))

\* a string: a data URL prefix (none, "data:" in some case with a comma after
\* it, or "data:" without a comma) before a body that is the base64 form of
\* data, or no base64 at all
Base64String(prefix, valid, data) == [prefix |-> prefix, valid |-> valid, data |-> data]

\* base64.StdEncoding.EncodeToString
EncodeToString(data) == Base64String("", TRUE, data)

stripDataPrefix(input) ==
    IF input.prefix \in {"data:,", "DATA:,"} THEN [input EXCEPT !.prefix = ""] ELSE input

\* base64.StdEncoding.DecodeString: [data, err]; ':' is no base64 character
DecodeString(raw) ==
    IF raw.prefix # "" \/ ~raw.valid
    THEN [data |-> NoBytes, err |-> Err("decode base64", 0)]
    ELSE [data |-> raw.data, err |-> NoErr]

\* RemoveWatermarkBase64(input): as RemoveWatermarkBytes, the output a string
RemoveWatermarkBase64(d, h, input) ==
    LET fail(err, inner, steps) ==
            [output |-> EncodeToString(NoBytes), present |-> FALSE, score |-> <<0, 1>>,
             info |-> ZeroInfo, err |-> err,
             maps |-> inner.maps, errs |-> inner.errs, done |-> inner.done,
             loaded |-> inner.loaded, steps |-> steps, heap |-> inner.heap,
             detected |-> inner.detected]
        idle == [maps |-> d.alphaMaps, errs |-> d.alphaErrs, done |-> d.once,
                 loaded |-> FALSE, heap |-> h, detected |-> "none"]
        With(x, F(_)) == CHOOSE r \in {F(v) : v \in {x}} : TRUE
    IN  With(DecodeString(stripDataPrefix(input)), LAMBDA data :
            IF data.err # NoErr THEN fail(data.err, idle, <<"base64">>)
            ELSE
            With(RemoveWatermarkBytes(d, h, data.data), LAMBDA out :
                IF out.err # NoErr THEN fail(out.err, out, <<"base64">> \o out.steps)
                ELSE IF ~out.present
                THEN [fail(NoErr, out, <<"base64">> \o out.steps)
                        EXCEPT !.score = out.score, !.info = out.info]
                ELSE [output |-> EncodeToString(out.output), present |-> TRUE,
                      score |-> out.score, info |-> out.info, err |-> NoErr,
                      maps |-> out.maps, errs |-> out.errs, done |-> out.done,
                      loaded |-> out.loaded,
                      steps |-> <<"base64">> \o out.steps \o <<"base64 out">>,
                      heap |-> out.heap, detected |-> out.detected]))

----------------------------------------------------------------------------
(* getAlphaMap / detectAlphaMap run by concurrent goroutines, one step per *)
(* shared access.  A map assignment takes two steps (it begins, it ends);  *)
(* a map read is one step.  An access to a map of a cache while another    *)
(* goroutine is between the two steps of an assignment to the same map is  *)
(* a data race.  What a racing access does is not defined: the runtime may *)
(* stop the process ("fatal error: concurrent map writes"), a read may     *)
(* miss the entry, an assignment may clobber the other entries or be       *)
(* dropped, or all may go as if the accesses had been serial.              *)

\* the number of goroutines
MaxGoroutines == 2

Goroutines == 1..MaxGoroutines

\* the sizes a caller may pass
RequestSizes == {48, 64, 96}

\* loads are counted up to here
LoadCap == 3

IdleFrame == [cache |-> "none", size |-> 0, alpha |-> <<>>, err |-> NoErr, torn |-> FALSE]

\* the goroutines other than t that are in the middle of an assignment
\* (pc = at) to a map of cache c
Writing(t, c, at) ==
    {u \in Goroutines \ {t} : pc[u] = at /\ frame[u].cache = c}

Goto(t, label) == pc' = [pc EXCEPT ![t] = label]

\* the call returns res to its caller
Return(t, c, size, res) ==
    /\ pc' = [pc EXCEPT ![t] = "idle"]
    /\ frame' = [frame EXCEPT ![t] = IdleFrame]
    /\ results' = [results EXCEPT ![c][size] = @ \cup {res}]

\* once, ok := e.once[size]; if !ok { return nil, unsupported }
\* by a goroutine at from
Enter(t, from, c, size) ==
    /\ ~crashed
    /\ pc[t] = from
    /\ IF size \notin DOMAIN onceDone[c]
       THEN Return(t, c, size, [alpha |-> <<>>, err |-> Err("unsupported size", size)])
       ELSE /\ Goto(t, "onceDo")
            /\ frame' = [frame EXCEPT ![t] = [IdleFrame EXCEPT !.cache = c, !.size = size]]
            /\ UNCHANGED results
    /\ UNCHANGED <<raced, crashed, envVars, calcVars>>

\* a goroutine outside the package calls into the cache c of this run
Begin(t, c, size) ==
    /\ size \in keys
    /\ c = target
    /\ Enter(t, "idle", c, size)
    /\ UNCHANGED <<cacheVars, engVars>>

\* a goroutine calls e.getAlphaMap(size)
EngineGetAlphaMap(t) == \E size \in RequestSizes : Begin(t, "engine", size)

\* a goroutine calls detectAlphaMap(size)
DetectAlphaMap(t) == \E size \in RequestSizes : Begin(t, "detectAlphaCache", size)

\* once.Do, fast path: nothing to do when the Once is done
OnceDo(t) ==
    /\ ~crashed
    /\ pc[t] = "onceDo"
    /\ LET c == frame[t].cache
           size == frame[t].size
       IN  IF mustLoad(onceDone[c][size], alphaErrs[c], size)
           THEN Goto(t, "onceLock")
           ELSE Goto(t, "readErr")
    /\ UNCHANGED <<frame, results, raced, crashed, cacheVars, envVars, engVars, calcVars>>

\* once.Do, slow path: take the mutex, look at done again
OnceLock(t) ==
    /\ ~crashed
    /\ pc[t] = "onceLock"
    /\ LET c == frame[t].cache
           size == frame[t].size
       IN  /\ onceMu[c][size] = 0
           /\ IF mustLoad(onceDone[c][size], alphaErrs[c], size)
              THEN /\ onceMu' = [onceMu EXCEPT ![c][size] = t]
                   /\ Goto(t, "decode")
              ELSE /\ Goto(t, "readErr")
                   /\ UNCHANGED onceMu
    /\ UNCHANGED <<frame, results, raced, crashed, onceDone, alphaMaps, alphaErrs,
                   loads, envVars, engVars, calcVars>>

\* inside once.Do: the right-hand side decodeAlphaAsset(size)
Decode(t) ==
    /\ ~crashed
    /\ pc[t] = "decode"
    /\ LET c == frame[t].cache
           size == frame[t].size
           got == decodeAlphaAsset(size)
       IN  /\ frame' = [frame EXCEPT ![t].alpha = got.alpha, ![t].err = got.err]
           /\ loads' = [loads EXCEPT ![c][size] = IF @ < LoadCap THEN @ + 1 ELSE @]
    /\ Goto(t, "storeMap")
    /\ UNCHANGED <<results, raced, crashed, onceDone, onceMu, alphaMaps, alphaErrs,
                   envVars, engVars, calcVars>>

\* an assignment to a map of the cache begins (from = "storeMap" for
\* e.alphaMaps[size], "storeErr" for e.alphaErrs[size])
StoreBegins(t, from, to) ==
    /\ ~crashed
    /\ pc[t] = from
    /\ LET others == Writing(t, frame[t].cache, to)
       IN  IF others = {}
           THEN /\ Goto(t, to)
                /\ UNCHANGED <<frame, raced, crashed>>
           ELSE /\ raced' = "write/write"
                /\ \E fatal \in BOOLEAN :
                    IF fatal
                    THEN crashed' = TRUE /\ UNCHANGED <<pc, frame>>
                    ELSE /\ Goto(t, to)
                         /\ frame' = [u \in Goroutines |->
                                IF u \in others \cup {t}
                                THEN [frame[u] EXCEPT !.torn = TRUE]
                                ELSE frame[u]]
                         /\ UNCHANGED crashed
    /\ UNCHANGED <<results, cacheVars, envVars, engVars, calcVars>>

\* the map after an assignment m[size] = v that raced or not
Stored(m, size, v, racing) ==
    IF racing
    THEN {Put(m, size, v), Put(EmptyMap, size, v), m}
    ELSE {Put(m, size, v)}

\* e.alphaMaps[size] = (the mask decoded)
StoreMapBegins(t) == StoreBegins(t, "storeMap", "storeMapEnds")

StoreMapEnds(t) ==
    /\ ~crashed
    /\ pc[t] = "storeMapEnds"
    /\ LET c == frame[t].cache
           racing == frame[t].torn \/ Writing(t, c, "storeMapEnds") # {}
       IN  \E m \in Stored(alphaMaps[c], frame[t].size, frame[t].alpha, racing) :
                alphaMaps' = [alphaMaps EXCEPT ![c] = m]
    /\ Goto(t, "storeErr")
    /\ frame' = [frame EXCEPT ![t].torn = FALSE]
    /\ UNCHANGED <<results, raced, crashed, onceDone, onceMu, alphaErrs, loads,
                   envVars, engVars, calcVars>>

\* e.alphaErrs[size] = (the error of the decoding)
StoreErrBegins(t) == StoreBegins(t, "storeErr", "storeErrEnds")

StoreErrEnds(t) ==
    /\ ~crashed
    /\ pc[t] = "storeErrEnds"
    /\ LET c == frame[t].cache
           racing == frame[t].torn \/ Writing(t, c, "storeErrEnds") # {}
       IN  \E m \in Stored(alphaErrs[c], frame[t].size, frame[t].err, racing) :
                alphaErrs' = [alphaErrs EXCEPT ![c] = m]
    /\ Goto(t, "onceUnlock")
    /\ frame' = [frame EXCEPT ![t].torn = FALSE]
    /\ UNCHANGED <<results, raced, crashed, onceDone, onceMu, alphaMaps, loads,
                   envVars, engVars, calcVars>>

\* once.Do returns: done.Store(1), then m.Unlock()
OnceUnlock(t) ==
    /\ ~crashed
    /\ pc[t] = "onceUnlock"
    /\ LET c == frame[t].cache
           size == frame[t].size
       IN  /\ onceDone' = [onceDone EXCEPT ![c][size] = TRUE]
           /\ onceMu' = [onceMu EXCEPT ![c][size] = 0]
    /\ Goto(t, "readErr")
    /\ UNCHANGED <<frame, results, raced, crashed, alphaMaps, alphaErrs, loads,
                   envVars, engVars, calcVars>>

\* what a read of map m at size may see: the map itself, or, when the read
\* races with an assignment, also a map without the entry
Seen(m, size, racing) ==
    IF racing
    THEN {m, [k \in DOMAIN m \ {size} |-> m[k]]}
    ELSE {m}

\* if err := e.alphaErrs[size]; err != nil { return nil, err }
ReadErr(t) ==
    /\ ~crashed
    /\ pc[t] = "readErr"
    /\ LET c == frame[t].cache
           size == frame[t].size
           racing == Writing(t, c, "storeErrEnds") # {}
       IN  /\ raced' = IF racing THEN "read/write" ELSE raced
           /\ \E fatal \in (IF racing THEN BOOLEAN ELSE {FALSE}) :
                IF fatal
                THEN crashed' = TRUE /\ UNCHANGED <<pc, frame, results>>
                ELSE /\ UNCHANGED crashed
                     /\ \E errs \in Seen(alphaErrs[c], size, racing) :
                            IF ErrAt(errs, size) # NoErr
                            THEN Return(t, c, size, [alpha |-> <<>>, err |-> errs[size]])
                            ELSE Goto(t, "readMap") /\ UNCHANGED <<frame, results>>
    /\ UNCHANGED <<cacheVars, envVars, engVars, calcVars>>

\* alpha, ok := e.alphaMaps[size]; return alpha, or "not available"
ReadMap(t) ==
    /\ ~crashed
    /\ pc[t] = "readMap"
    /\ LET c == frame[t].cache
           size == frame[t].size
           racing == Writing(t, c, "storeMapEnds") # {}
       IN  /\ raced' = IF racing THEN "read/write" ELSE raced
           /\ \E fatal \in (IF racing THEN BOOLEAN ELSE {FALSE}) :
                IF fatal
                THEN crashed' = TRUE /\ UNCHANGED <<pc, frame, results>>
                ELSE /\ UNCHANGED crashed
                     /\ \E maps \in Seen(alphaMaps[c], size, racing) :
                            Return(t, c, size, lookupResult(maps, EmptyMap, size))
    /\ UNCHANGED <<cacheVars, envVars, engVars, calcVars>>

----------------------------------------------------------------------------
(* The package-level RemoveWatermark and its default engine, next to       *)
(* callers that make their own Engine.  Of Engine.RemoveWatermark only the *)
(* part that touches shared state is followed here: the call of            *)
(* getAlphaMap; the pixels are local to the call.  A call is known by the  *)
(* mask size its image needs, 0 for an image that is rejected before any   *)
(* mask is asked for.                                                      *)

\* the Engines a run can hold
EnginePool == {"engine", "engine2", "engine3"}

\* the Engines nobody has constructed yet
Unmade == {e \in EnginePool : made[e] = "unmade"}

mustConstruct_always(done) == TRUE

\* whether defaultEngine.once.Do runs its function
mustConstruct(done) == ~done

\* a goroutine calls RemoveWatermark(img) of the package
PkgRemoveWatermark(t) ==
    /\ ~crashed
    /\ pc[t] = "idle"
    /\ \E size \in ({0} \cup (keys \cap onceKeys)) :
            frame' = [frame EXCEPT ![t] = [IdleFrame EXCEPT !.size = size]]
    /\ Goto(t, "defaultOnce")
    /\ UNCHANGED <<results, raced, crashed, cacheVars, envVars, engVars, calcVars>>

\* defaultEngine.once.Do, fast path
DefaultOnceDo(t) ==
    /\ ~crashed
    /\ pc[t] = "defaultOnce"
    /\ IF mustConstruct(defaultEngine.done)
       THEN Goto(t, "defaultLock")
       ELSE Goto(t, "dispatch")
    /\ UNCHANGED <<frame, results, raced, crashed, cacheVars, envVars, engVars, calcVars>>

\* defaultEngine.once.Do, slow path: take the mutex, look at done again
DefaultOnceLock(t) ==
    /\ ~crashed
    /\ pc[t] = "defaultLock"
    /\ defaultEngine.mu = 0
    /\ IF mustConstruct(defaultEngine.done)
       THEN /\ defaultEngine' = [defaultEngine EXCEPT !.mu = t]
            /\ Goto(t, "construct")
       ELSE /\ Goto(t, "dispatch")
            /\ UNCHANGED defaultEngine
    /\ UNCHANGED <<frame, results, raced, crashed, cacheVars, envVars, made, used, calcVars>>

\* inside once.Do: defaultEngine.eng = NewEngine()
DefaultConstruct(t) ==
    /\ ~crashed
    /\ pc[t] = "construct"
    /\ Unmade # {}
    /\ LET e == CHOOSE x \in Unmade : TRUE
       IN  /\ made' = [made EXCEPT ![e] = "package"]
           /\ alphaMaps' = [alphaMaps EXCEPT ![e] = NewEngine.alphaMaps]
           /\ alphaErrs' = [alphaErrs EXCEPT ![e] = NewEngine.alphaErrs]
           /\ onceDone' = [onceDone EXCEPT ![e] = NewEngine.once]
           /\ defaultEngine' = [defaultEngine EXCEPT !.eng = e]
    /\ Goto(t, "defaultUnlock")
    /\ UNCHANGED <<frame, results, raced, crashed, onceMu, loads, envVars, used, calcVars>>

\* once.Do returns: done.Store(1), then m.Unlock()
DefaultOnceUnlock(t) ==
    /\ ~crashed
    /\ pc[t] = "defaultUnlock"
    /\ defaultEngine' = [defaultEngine EXCEPT !.done = TRUE, !.mu = 0]
    /\ Goto(t, "dispatch")
    /\ UNCHANGED <<frame, results, raced, crashed, cacheVars, envVars, made, used, calcVars>>

\* return defaultEngine.eng.RemoveWatermark(img)
Dispatch(t) ==
    /\ used' = used \cup {defaultEngine.eng}
    /\ IF frame[t].size = 0
       THEN /\ ~crashed
            /\ pc[t] = "dispatch"
            /\ pc' = [pc EXCEPT ![t] = "idle"]
            /\ frame' = [frame EXCEPT ![t] = IdleFrame]
            /\ UNCHANGED <<results, raced, crashed, envVars, calcVars>>
       ELSE Enter(t, "dispatch", defaultEngine.eng, frame[t].size)
    /\ UNCHANGED <<defaultEngine, made, cacheVars>>

\* a goroutine calls NewEngine() and RemoveWatermark(img) of the new Engine.
\* No other goroutine can reach that Engine, so the call is one step.  One
\* Engine is left for the package.
OwnEngineRemoveWatermark(t) ==
    /\ ~crashed
    /\ pc[t] = "idle"
    /\ Cardinality(Unmade) > (IF defaultEngine.eng = "nil" THEN 1 ELSE 0)
    /\ LET e == CHOOSE x \in Unmade : TRUE
       IN  /\ made' = [made EXCEPT ![e] = "caller"]
           /\ \E size \in ({0} \cup (keys \cap onceKeys)) :
                IF size = 0
                THEN UNCHANGED <<alphaMaps, alphaErrs, onceDone, loads, results>>
                ELSE \E got \in {Engine_getAlphaMap(NewEngine, size)} :
                        /\ alphaMaps' = [alphaMaps EXCEPT ![e] = got.maps]
                        /\ alphaErrs' = [alphaErrs EXCEPT ![e] = got.errs]
                        /\ onceDone' = [onceDone EXCEPT ![e] = got.done]
                        /\ loads' = [loads EXCEPT ![e][size] = IF got.loaded THEN 1 ELSE 0]
                        /\ results' = [results EXCEPT ![e][size] =
                                            {[alpha |-> got.alpha, err |-> got.err]}]
    /\ UNCHANGED <<pc, frame, raced, crashed, onceMu, defaultEngine, used, envVars, calcVars>>

----------------------------------------------------------------------------
(* Inputs of the pure functions.                                    *)

\* how far around each threshold the sampled dimensions reach
Slack == 1

Near(c) == (c - Slack)..(c + Slack)

\* widths and heights: around 0, the logo sizes, the smallest images that
\* hold each preset, and the preset threshold
Dims ==
    Near(0) \cup Near(48) \cup Near(80) \cup Near(96) \cup Near(160)
        \cup Near(sizeThreshold) \cup Near(sizeThreshold + 160)

\* bounds.Min of the sampled images: image.Rectangle need not start at 0
Origins == {-3, 0, 7}

ImageBounds ==
    {Rect(ox, oy, ox + w, oy + h) :
        ox \in Origins, oy \in {0, 7}, w \in {d \in Dims : d >= 0},
        h \in {d \in Dims : d >= 0}}

Presets == {watermarkConfig(48, 32, 32), watermarkConfig(96, 64, 64)}

\* the number of steps in which the sampled opacities climb from 0 to 1
GridLevels == 51

\* mask numerators: a ladder of 8-bit levels (a reference capture with 8-bit
\* channels gives 257*v), and the numerators on either side of alphaThreshold
\* (131.07) and of maxAlpha (64879.65)
AlphaGrid ==
    {257 * ((k * 255) \div GridLevels) : k \in 0..GridLevels}
        \cup {1, 131, 132, 64879, 64880, 65534, 65535}

ChannelValues == 0..255

\* a colour whose three channels differ, one for every 8-bit value
Colour(w) == <<w, 255 - w, (w + 77) % 256, (3 * w) % 256>>

\* the largest side of the small buffers
MaxSide == 2

SmallBounds ==
    {Rect(o, o, o + w, o + h) : o \in {0, 5}, w \in 1..MaxSide, h \in 1..MaxSide}

\* the non-empty rectangles inside b
SubRects(b) ==
    {Rect(c[1], c[2], c[3], c[4]) :
        c \in {d \in (b.Min.X..b.Max.X) \X (b.Min.Y..b.Max.Y)
                        \X (b.Min.X..b.Max.X) \X (b.Min.Y..b.Max.Y) :
                    d[1] < d[3] /\ d[2] < d[4]}}

MaskLadder == <<0, 131, 132, 30000, 64880, 65535>>

\* masks of n entries: uniform ones (two of them below alphaThreshold
\* throughout) and ones that walk the ladder
SmallMasks(n) ==
    {[i \in 1..n |-> MaskLadder[(((i - 1) * k + j) % Len(MaskLadder)) + 1]] :
        j \in 0..(Len(MaskLadder) - 1), k \in {0, 1}}

SmallBases == {[px |-> Colour(w), step |-> st] : w \in {0, 130, 255}, st \in {0, 37}}

\* arguments of applyReverseAlpha as RemoveWatermark passes them: rect inside
\* the buffer, one mask entry per pixel of rect.  The 1x1 buffers cover every
\* channel value against every sampled opacity.
SmallInputs ==
    UNION {UNION {{[img |-> RGBAImage(b, base), alphaMap |-> mask, rect |-> r] :
                        base \in SmallBases, mask \in SmallMasks(Dx(r) * Dy(r))} :
                    r \in SubRects(b)} : b \in SmallBounds}

PixelInputs ==
    {[img |-> RGBAImage(Rect(0, 0, 1, 1), [px |-> Colour(w), step |-> 0]),
      alphaMap |-> <<max>>, rect |-> Rect(0, 0, 1, 1)] :
        w \in ChannelValues, max \in AlphaGrid}

ApplyInputs == SmallInputs \cup PixelInputs

\* how often the transform is run again on its own result
MaxRuns == 2

----------------------------------------------------------------------------
(* The pure functions, each applied once to an input drawn from the sets   *)
(* above.                                                                  *)

\* no single-goroutine operation has run, no buffer exists
NoCalc ==
    /\ op = "none"
    /\ inp = <<>>
    /\ outp = <<>>
    /\ heap = <<>>

\* every cache as constructed, every goroutine outside the package
FreshCaches ==
    /\ onceDone = [c \in Caches |-> NewEngine.once]
    /\ onceMu = [c \in Caches |-> [k \in onceKeys |-> 0]]
    /\ alphaMaps = [c \in Caches |-> NewEngine.alphaMaps]
    /\ alphaErrs = [c \in Caches |-> NewEngine.alphaErrs]
    /\ loads = [c \in Caches |-> [k \in RequestSizes |-> 0]]
    /\ pc = [t \in Goroutines |-> "idle"]
    /\ frame = [t \in Goroutines |-> IdleFrame]
    /\ results = [c \in Caches |-> [k \in RequestSizes |-> {}]]
    /\ raced = "no"
    /\ crashed = FALSE
    /\ defaultEngine = NoDefault
    /\ made = [c \in Caches |-> IF c = "engine" THEN "caller" ELSE "package"]
    /\ used = {}

\* a capture of w x h pixels
Capture(size, w, h, kind, decodable) ==
    [Dx |-> w, Dy |-> h, kind |-> kind, seed |-> size, decodable |-> decodable]

\* captures of two pixels, each decodable or not: the caches do not look at
\* the length of a mask
TinyAssets ==
    {[k \in embeddedAssets |->
            Capture(k, 2, 1, "logo", IF k = 48 THEN d[1] ELSE IF k = 96 THEN d[2] ELSE TRUE)] :
        d \in BOOLEAN \X BOOLEAN}

InitCalc ==
    /\ NoCalc
    /\ FreshCaches
    /\ assets \in {a \in TinyAssets : \A k \in embeddedAssets : a[k].decodable}
    /\ keys = {}
    /\ target = "engine"

CallDetectWatermarkConfig ==
    /\ op = "none"
    /\ \E w \in Dims, h \in Dims :
        /\ op' = "DetectWatermarkConfig"
        /\ inp' = [width |-> w, height |-> h]
        /\ outp' = DetectWatermarkConfig(w, h)
    /\ UNCHANGED <<heap, envVars, engVars, cacheVars, procVars>>

CallCalculateWatermarkRect ==
    /\ op = "none"
    /\ \E b \in ImageBounds, cfg \in Presets :
        /\ op' = "calculateWatermarkRect"
        /\ inp' = [bounds |-> b, cfg |-> cfg]
        /\ outp' = calculateWatermarkRect(b, cfg)
    /\ UNCHANGED <<heap, envVars, engVars, cacheVars, procVars>>

\* applyReverseAlpha on a buffer nobody else holds
CallApplyReverseAlpha ==
    /\ op = "none"
    /\ \E a \in ApplyInputs :
        /\ op' = "applyReverseAlpha"
        /\ inp' = [first |-> a.img, img |-> a.img, alphaMap |-> a.alphaMap,
                   rect |-> a.rect, runs |-> 1]
        /\ outp' = applyReverseAlpha(a.img, a.alphaMap, a.rect)
    /\ UNCHANGED <<heap, envVars, engVars, cacheVars, procVars>>

\* applyReverseAlpha again, on the buffer the last run left
AgainApplyReverseAlpha ==
    /\ op = "applyReverseAlpha"
    /\ inp.runs < MaxRuns
    /\ op' = op
    /\ inp' = [inp EXCEPT !.img = outp, !.runs = @ + 1]
    /\ outp' = applyReverseAlpha(outp, inp.alphaMap, inp.rect)
    /\ UNCHANGED <<heap, envVars, engVars, cacheVars, procVars>>

\* the composition the transform inverts, for one channel: the 8-bit value
\* nearest to a*255 + (1 - a)*original, for the opacity a = max/65535
Composite(original, max) ==
    Round(max * logoValue + (alphaScale - max) * original, alphaScale)

\* a pixel composited under a known opacity, then restored
CallRoundTrip ==
    /\ op = "none"
    /\ \E w \in ChannelValues, max \in AlphaGrid :
        LET orig == Colour(w)
            marked == RGBAImage(Rect(0, 0, 1, 1),
                        [px |-> <<Composite(orig[1], max), Composite(orig[2], max),
                                  Composite(orig[3], max), orig[4]>>,
                         step |-> 0])
        IN  /\ op' = "roundTrip"
            /\ inp' = [original |-> orig, max |-> max, img |-> marked]
            /\ outp' = applyReverseAlpha(marked, <<max>>, Rect(0, 0, 1, 1))
    /\ UNCHANGED <<heap, envVars, engVars, cacheVars, procVars>>

NextCalc ==
    \/ CallDetectWatermarkConfig
    \/ CallCalculateWatermarkRect
    \/ CallApplyReverseAlpha
    \/ AgainApplyReverseAlpha
    \/ CallRoundTrip

SpecCalc == InitCalc /\ [][NextCalc]_vars

----------------------------------------------------------------------------
(* One goroutine calling Engine.RemoveWatermark, again and again, on the   *)
(* images it holds.                                                        *)

\* the caller's images: the smallest image that holds the 48 preset, ones too
\* small for it, an empty one, ones on either side of the preset threshold,
\* with origins other than (0, 0), of uniform and of varying content
CallerImages ==
    <<RGBAImage(Rect(0, 0, 80, 80), [px |-> Colour(200), step |-> 37]),
      RGBAImage(Rect(0, 0, 79, 100), [px |-> Colour(10), step |-> 0]),
      RGBAImage(Rect(7, 7, 107, 97), [px |-> Colour(255), step |-> 0]),
      RGBAImage(Rect(5, 5, 5, 30), [px |-> Colour(10), step |-> 0]),
      RGBAImage(Rect(0, 0, 1024, 1025), [px |-> Colour(90), step |-> 11]),
      RGBAImage(Rect(-3, 0, 1022, 1026), [px |-> Colour(254), step |-> 37])>>

CallerIds == 1..Len(CallerImages)

\* captures of the sizes the presets expect, clear or not, undecodable, or
\* one row short
FullAssets ==
    {[k \in embeddedAssets |->
            IF k = 48 THEN a ELSE IF k = 96 THEN b
            ELSE Capture(64, 64, 64, "logo", TRUE)] :
        a \in {Capture(48, 48, 48, "logo", TRUE), Capture(48, 48, 48, "clear", TRUE),
               Capture(48, 48, 48, "logo", FALSE), Capture(48, 48, 47, "logo", TRUE)},
        b \in {Capture(96, 96, 96, "logo", TRUE), Capture(96, 96, 96, "logo", FALSE)}}

InitRemove ==
    /\ op = "none"
    /\ inp = <<>>
    /\ outp = <<>>
    /\ heap = [i \in CallerIds |-> CallerImages[i]]
    /\ FreshCaches
    /\ assets \in FullAssets
    /\ keys = {}
    /\ target = "engine"

\* the caller lets go of the last result and calls e.RemoveWatermark(img)
CallRemoveWatermark ==
    \E img \in {0} \cup CallerIds :
        \E r \in {RemoveWatermark("engine", [i \in CallerIds |-> heap[i]], img)} :
            /\ op' = "RemoveWatermark"
            /\ inp' = [img |-> img]
            /\ outp' = [img |-> r.img, err |-> r.err]
            /\ heap' = r.heap
            /\ alphaMaps' = [alphaMaps EXCEPT !["engine"] = r.maps]
            /\ alphaErrs' = [alphaErrs EXCEPT !["engine"] = r.errs]
            /\ onceDone' = [onceDone EXCEPT !["engine"] = r.done]
            /\ loads' = IF r.loaded
                        THEN [loads EXCEPT !["engine"][DetectWatermarkConfig(
                                    Dx(heap[img].Rect), Dy(heap[img].Rect)).LogoSize] =
                                        IF @ < LoadCap THEN @ + 1 ELSE @]
                        ELSE loads
            /\ UNCHANGED <<onceMu, envVars, engVars, procVars>>

NextRemove == CallRemoveWatermark

SpecRemove == InitRemove /\ [][NextRemove]_vars

----------------------------------------------------------------------------
(* One call of an entry point of the package: DetectWatermark,             *)
(* Engine.RemoveWatermark and the byte and base64 forms.                   *)

\* a grey picture: the level g on the first pixel, step more on each next one
Grey(r, g, step) == RGBAImage(r, [px |-> <<g, g, g, 255>>, step |-> step])

\* the picture img with d added to every second pixel of the preset rectangle
Dabbed(img, d) ==
    LET cfg == DetectWatermarkConfig(Dx(img.Rect), Dy(img.Rect))
        rect == calculateWatermarkRect(img.Rect, cfg).rect
        n == Dx(rect) * Dy(rect)
        lit == {i \in 0..(n - 1) : i % 2 = 0}
        at(i) == PixOffset(img, rect.Min.X + (i % Dx(rect)), rect.Min.Y + (i \div Dx(rect)))
        offsets == {at(i) + c : i \in lit, c \in 0..2}
    IN  [img EXCEPT !.patch = [o \in offsets |-> BasePix(img.base, o) + d]]

\* the pictures the entry points are called with
DetectImages ==
    <<Grey(Rect(0, 0, 80, 80), 100, 0),
      Grey(Rect(0, 0, 80, 80), 60, 128),
      Grey(Rect(0, 0, 80, 80), 188, 128),
      Grey(Rect(0, 0, 80, 80), 240, 16),
      Dabbed(Grey(Rect(0, 0, 80, 80), 100, 0), 3),
      Dabbed(Grey(Rect(0, 0, 80, 80), 100, 0), 7),
      Grey(Rect(0, 0, 79, 100), 100, 0),
      Grey(Rect(5, 5, 5, 30), 100, 0),
      Grey(Rect(0, 0, 1040, 1040), 188, 128)>>

DetectAssets ==
    {[k \in embeddedAssets |->
            IF k = 48 THEN e[1] ELSE IF k = 96 THEN e[2]
            ELSE Capture(64, 64, 64, "mark", TRUE)] :
        e \in {<<Capture(48, 48, 48, "mark", TRUE), Capture(96, 96, 96, "mark", TRUE)>>,
               <<Capture(48, 48, 48, "mark", FALSE), Capture(96, 96, 96, "mark", FALSE)>>,
               <<Capture(48, 48, 49, "mark", TRUE), Capture(96, 96, 95, "mark", TRUE)>>,
               <<Capture(48, 47, 48, "mark", TRUE), Capture(96, 97, 96, "mark", TRUE)>>,
               <<Capture(48, 48, 48, "faint", TRUE), Capture(96, 96, 96, "opaque", TRUE)>>,
               <<Capture(48, 48, 48, "blank", TRUE), Capture(96, 96, 96, "mark", TRUE)>>}}

InitEntry ==
    /\ op = "none"
    /\ inp = <<>>
    /\ outp = <<>>
    /\ heap = [i \in DOMAIN DetectImages |-> DetectImages[i]]
    /\ FreshCaches
    /\ assets \in DetectAssets
    /\ keys = {}
    /\ target = "detectAlphaCache"

\* present, score, info, err := DetectWatermark(img)
CallDetectWatermark ==
    /\ op = "none"
    /\ \E img \in {0} \cup DOMAIN heap :
        \E r \in {DetectWatermark(CacheOf("detectAlphaCache"), heap, img)} :
            /\ op' = "DetectWatermark"
            /\ inp' = [img |-> img]
            /\ outp' = [present |-> r.present, score |-> r.score, info |-> r.info,
                        err |-> r.err, steps |-> r.steps, read |-> r.read,
                        corr |-> r.corr, bgCount |-> r.bgCount,
                        outerCount |-> r.outerCount]
            /\ alphaMaps' = [alphaMaps EXCEPT !["detectAlphaCache"] = r.maps]
            /\ alphaErrs' = [alphaErrs EXCEPT !["detectAlphaCache"] = r.errs]
            /\ onceDone' = [onceDone EXCEPT !["detectAlphaCache"] = r.done]
            /\ UNCHANGED <<heap, loads, onceMu, envVars, engVars, procVars>>

\* e := NewEngine(); cleaned, err := e.RemoveWatermark(img)
CallEngineRemoveWatermark ==
    /\ op = "none"
    /\ \E img \in {0} \cup DOMAIN heap :
        \E r \in {Engine_RemoveWatermark(NewEngine, heap, img)} :
            /\ op' = "Engine.RemoveWatermark"
            /\ inp' = [img |-> img]
            /\ outp' = [img |-> r.img, err |-> r.err]
            /\ heap' = r.heap
            /\ alphaMaps' = [alphaMaps EXCEPT !["engine"] = r.maps]
            /\ alphaErrs' = [alphaErrs EXCEPT !["engine"] = r.errs]
            /\ onceDone' = [onceDone EXCEPT !["engine"] = r.done]
            /\ UNCHANGED <<loads, onceMu, envVars, engVars, procVars>>

\* the byte slices the callers pass: none, no image, and files of some of
\* the pictures
Payloads ==
    {NoBytes, Garbage} \cup
    {ImageBytes(IF i % 2 = 0 THEN "png" ELSE "jpeg", DetectImages[i]) :
        i \in {i \in DOMAIN DetectImages : Dx(DetectImages[i].Rect) \in 1..80}}

\* the strings the callers pass
Strings ==
    {Base64String("", TRUE, b) : b \in Payloads}
        \cup {Base64String(p, TRUE, b) :
                    p \in {"data:,", "DATA:,", "data:"},
                    b \in {NoBytes, Garbage, ImageBytes("webp", DetectImages[6])}}
        \cup {Base64String("", FALSE, Garbage)}

\* the fields of the state a call through the detection cache leaves
Returned(name, input, r) ==
    /\ op' = name
    /\ inp' = input
    /\ heap' = r.heap
    /\ alphaMaps' = [alphaMaps EXCEPT !["detectAlphaCache"] = r.maps]
    /\ alphaErrs' = [alphaErrs EXCEPT !["detectAlphaCache"] = r.errs]
    /\ onceDone' = [onceDone EXCEPT !["detectAlphaCache"] = r.done]
    /\ UNCHANGED <<loads, onceMu, envVars, engVars, procVars>>

\* present, score, info, err := DetectWatermarkBytes(data)
CallDetectWatermarkBytes ==
    /\ op = "none"
    /\ \E data \in Payloads :
        \E r \in {DetectWatermarkBytes(CacheOf("detectAlphaCache"), heap, data)} :
            /\ Returned("DetectWatermarkBytes", [data |-> data], r)
            /\ outp' = [present |-> r.present, score |-> r.score, info |-> r.info,
                        err |-> r.err, steps |-> r.steps]

\* output, present, score, info, err := RemoveWatermarkBytes(input)
CallRemoveWatermarkBytes ==
    /\ op = "none"
    /\ \E data \in Payloads :
        \E r \in {RemoveWatermarkBytes(CacheOf("detectAlphaCache"), heap, data)} :
            /\ Returned("RemoveWatermarkBytes", [data |-> data], r)
            /\ outp' = [output |-> r.output, present |-> r.present, score |-> r.score,
                        info |-> r.info, err |-> r.err, steps |-> r.steps,
                        detected |-> r.detected]

\* output, present, score, info, err := RemoveWatermarkBase64(input)
CallRemoveWatermarkBase64 ==
    /\ op = "none"
    /\ \E str \in Strings :
        \E r \in {RemoveWatermarkBase64(CacheOf("detectAlphaCache"), heap, str)} :
            /\ Returned("RemoveWatermarkBase64", [str |-> str], r)
            /\ outp' = [output |-> r.output, present |-> r.present, score |-> r.score,
                        info |-> r.info, err |-> r.err, steps |-> r.steps,
                        detected |-> r.detected]

NextEntry ==
    \/ CallDetectWatermark
    \/ CallEngineRemoveWatermark
    \/ CallDetectWatermarkBytes
    \/ CallRemoveWatermarkBytes
    \/ CallRemoveWatermarkBase64

SpecEntry == InitEntry /\ [][NextEntry]_vars

----------------------------------------------------------------------------
(* One call of DetectWatermark or Engine.RemoveWatermark on an image of    *)
(* any width and height.                                                   *)

\* widths and heights: one pixel, around the smallest image that holds the
\* 48 preset, and on either side of the preset threshold
PlaceDims == {1} \cup Near(80) \cup {sizeThreshold, sizeThreshold + 1}

\* masks of the right length, and masks one row short
PlaceAssets ==
    {[k \in embeddedAssets |-> Capture(k, k, k - short, "mark", TRUE)] : short \in {0, 1}}

\* the caller holds one uniform grey image, its bounds not always from (0, 0)
InitPlace ==
    /\ op = "none"
    /\ inp = <<>>
    /\ outp = <<>>
    /\ \E w \in PlaceDims, h \in PlaceDims :
            heap = <<Grey(Rect(7 * (w % 2), -3 * (h % 2), 7 * (w % 2) + w, h - 3 * (h % 2)),
                          100, 0)>>
    /\ FreshCaches
    /\ assets \in PlaceAssets
    /\ keys = {}
    /\ target = "detectAlphaCache"

NextPlace ==
    \/ CallDetectWatermark
    \/ CallEngineRemoveWatermark

SpecPlace == InitPlace /\ [][NextPlace]_vars

----------------------------------------------------------------------------
(* Goroutines calling into the caches concurrently.                        *)

Step(t) ==
    \/ EngineGetAlphaMap(t)
    \/ DetectAlphaMap(t)
    \/ OnceDo(t)
    \/ OnceLock(t)
    \/ Decode(t)
    \/ StoreMapBegins(t)
    \/ StoreMapEnds(t)
    \/ StoreErrBegins(t)
    \/ StoreErrEnds(t)
    \/ OnceUnlock(t)
    \/ ReadErr(t)
    \/ ReadMap(t)

Next == \E t \in Goroutines : Step(t)

\* callers ask for any size; the caches share nothing, so the goroutines of
\* one run all use the same cache
Init ==
    /\ NoCalc
    /\ FreshCaches
    /\ assets \in TinyAssets
    /\ keys = RequestSizes
    /\ target \in Caches

Spec == Init /\ [][Next]_vars

\* all callers ask for the same supported size, or for the unsupported 64
InitOneKey ==
    /\ NoCalc
    /\ FreshCaches
    /\ assets \in TinyAssets
    /\ keys \in {{48, 64}, {96, 64}}
    /\ target \in Caches

SpecOneKey == InitOneKey /\ [][Next]_vars

\* a goroutine takes a step of a call of either kind, or a step inside
\* getAlphaMap
NextDefault ==
    \E t \in Goroutines :
        \/ PkgRemoveWatermark(t)
        \/ DefaultOnceDo(t)
        \/ DefaultOnceLock(t)
        \/ DefaultConstruct(t)
        \/ DefaultOnceUnlock(t)
        \/ Dispatch(t)
        \/ OwnEngineRemoveWatermark(t)
        \/ OnceDo(t)
        \/ OnceLock(t)
        \/ Decode(t)
        \/ StoreMapBegins(t)
        \/ StoreMapEnds(t)
        \/ StoreErrBegins(t)
        \/ StoreErrEnds(t)
        \/ OnceUnlock(t)
        \/ ReadErr(t)
        \/ ReadMap(t)

\* no Engine exists; the assets decode; sizes are the sets of mask sizes the
\* images of a run may need
InitDefault(sizes) ==
    /\ NoCalc
    /\ keys \in sizes
    /\ onceDone = [c \in EnginePool |-> NewEngine.once]
    /\ onceMu = [c \in EnginePool |-> [k \in onceKeys |-> 0]]
    /\ alphaMaps = [c \in EnginePool |-> NewEngine.alphaMaps]
    /\ alphaErrs = [c \in EnginePool |-> NewEngine.alphaErrs]
    /\ loads = [c \in EnginePool |-> [k \in RequestSizes |-> 0]]
    /\ pc = [t \in Goroutines |-> "idle"]
    /\ frame = [t \in Goroutines |-> IdleFrame]
    /\ results = [c \in EnginePool |-> [k \in RequestSizes |-> {}]]
    /\ raced = "no"
    /\ crashed = FALSE
    /\ defaultEngine = NoDefault
    /\ made = [c \in EnginePool |-> "unmade"]
    /\ used = {}
    /\ assets \in {a \in TinyAssets : \A k \in embeddedAssets : a[k].decodable}
    /\ target = "engine"

\* the images of a run all need the same mask, or none
SpecDefault == InitDefault({{48}, {96}}) /\ [][NextDefault]_vars

\* the images of a run need either mask
SpecDefaultBothSizes == InitDefault({onceKeys}) /\ [][NextDefault]_vars

----------------------------------------------------------------------------
(* Claims.                                                                 *)

\* C4: DetectWatermarkConfig returns {96, 64, 64} if and only if width > 1024
\* and height > 1024 (both strict), and {48, 32, 32} in every other case; no
\* third preset is ever returned.
C4_ConfigRule ==
    op = "DetectWatermarkConfig" =>
        LET large == inp.width > 1024 /\ inp.height > 1024
        IN  /\ large <=> outp = [LogoSize |-> 96, MarginRight |-> 64, MarginBottom |-> 64]
            /\ ~large <=> outp = [LogoSize |-> 48, MarginRight |-> 32, MarginBottom |-> 32]

\* C4 witness: the boundary image 1024 x 1025 was configured, and got 48
C4_Witness ==
    /\ op = "DetectWatermarkConfig"
    /\ inp = [width |-> 1024, height |-> 1025]
    /\ outp.LogoSize = 48

\* C5: calculateWatermarkRect returns either a logoSize x logoSize rectangle
\* whose bottom-right corner is (Max.X - marginRight, Max.Y - marginBottom)
\* and which lies inside bounds, or the out-of-bounds error with the empty
\* rectangle, and the error exactly when that rectangle is not contained in
\* bounds.
C5_RectContract ==
    op = "calculateWatermarkRect" =>
        LET b == inp.bounds
            cfg == inp.cfg
            maxX == b.Max.X - cfg.MarginRight
            maxY == b.Max.Y - cfg.MarginBottom
            minX == maxX - cfg.LogoSize
            minY == maxY - cfg.LogoSize
            inside == /\ b.Min.X <= minX /\ maxX <= b.Max.X
                      /\ b.Min.Y <= minY /\ maxY <= b.Max.Y
            r == outp.rect
        IN  /\ inside =>
                /\ outp.err = NoErr
                /\ r.Max = Pt(maxX, maxY)
                /\ r.Max.X - r.Min.X = cfg.LogoSize
                /\ r.Max.Y - r.Min.Y = cfg.LogoSize
            /\ ~inside =>
                /\ outp.err.kind = "out of bounds"
                /\ r = [Min |-> Pt(0, 0), Max |-> Pt(0, 0)]

\* C5 witness: a rectangle was placed in an image whose origin is not (0, 0)
C5_Witness ==
    /\ op = "calculateWatermarkRect"
    /\ outp.err = NoErr
    /\ inp.bounds.Min.X # 0
    /\ outp.rect.Min.X = inp.bounds.Min.X

----------------------------------------------------------------------------
(* The mask caches under concurrent callers.                               *)

\* C1: for one cache and one supported size, the load of the mask runs at
\* most once however many goroutines ask for it; no call returns before the
\* load has completed; and every call returns the one outcome of that load,
\* the mask or the error.
C1_LoadOnce ==
    \A c \in Caches : \A s \in onceKeys :
        /\ loads[c][s] <= 1
        /\ results[c][s] # {} => onceDone[c][s] /\ loads[c][s] = 1
        /\ results[c][s] \subseteq {decodeAlphaAsset(s)}

\* a call has returned the loaded outcome while another caller, which found
\* the load under way, is still waiting at the Once
C1_Witness ==
    \E t \in Goroutines :
        /\ pc[t] = "onceLock"
        /\ frame[t].size \in onceKeys
        /\ onceDone[frame[t].cache][frame[t].size]
        /\ results[frame[t].cache][frame[t].size] # {}

\* C2: the cache maps shared by all sizes are never accessed by two goroutines
\* at once with one of them writing; loads of different sizes do not corrupt
\* or lose each other's entries.
C2_NoDataRace == raced = "no"

\* C3: once a call has returned an error for a supported size, that size is
\* never loaded again and every later call returns the same error; a call for
\* a size without a Once (64 included) returns the unsupported-size error and
\* no asset is read for it.
C3_FailurePermanent ==
    [][\A c \in Caches :
        /\ \A s \in onceKeys :
            (\E r \in results[c][s] : r.err # NoErr)
                => loads'[c][s] = loads[c][s] /\ results'[c][s] = results[c][s]
        /\ \A s \in RequestSizes \ onceKeys :
            /\ loads'[c][s] = 0
            /\ results'[c][s] \subseteq
                    {[alpha |-> <<>>, err |-> Err("unsupported size", s)]}]_vars

\* a load has failed and its error has been returned; a later call for the
\* same size is about to return; a call for size 64 has returned
C3_Witness ==
    \E t \in Goroutines :
        /\ pc[t] = "readErr"
        /\ frame[t].size \in onceKeys
        /\ \E r \in results[frame[t].cache][frame[t].size] : r.err # NoErr
        /\ results[frame[t].cache][64] # {}

----------------------------------------------------------------------------
(* The transform on its own.                                               *)

\* the cells (row-major indices) of the rectangle of the last run
Cells == 0..(Dx(inp.rect) * Dy(inp.rect) - 1)

\* the offset in Pix of channel ch of the pixel of cell i
CellOffset(i, ch) ==
    PixOffset(inp.img, inp.rect.Min.X + (i % Dx(inp.rect)),
              inp.rect.Min.Y + (i \div Dx(inp.rect))) + ch

\* v is round(clamp((w - a*255) / (1 - a), 0, 255)) for a = p/q < 1, with
\* halves rounded up
IsRestored(v, w, p, q) ==
    LET n == w * q - 255 * p
        d == q - p
    IN  /\ v \in 0..255
        /\ IF n <= 0 THEN v = 0
           ELSE IF n >= 255 * d THEN v = 255
           ELSE 2 * v * d <= 2 * n + d /\ 2 * n + d < 2 * (v + 1) * d

\* C8: a pixel whose mask value a is below 0.002 is left as it was; otherwise
\* a is replaced by min(a, 0.99) and each of R, G, B becomes
\* round(clamp((watermarked - a*255) / (1 - a), 0, 255)), an integer in
\* 0..255; the divisor the code uses is never below 0.01.
C8_PixelFormula ==
    op = "applyReverseAlpha" =>
        \A i \in Cells : \A ch \in 0..2 :
            LET m == inp.alphaMap[i + 1]
                before == PixAt(inp.img, CellOffset(i, ch))
                after == PixAt(outp, CellOffset(i, ch))
            IN  IF m * 1000 < 2 * 65535
                THEN after = before
                ELSE /\ IF m * 100 > 99 * 65535
                        THEN IsRestored(after, before, 99, 100)
                        ELSE IsRestored(after, before, m, 65535)
                     /\ ~Less(oneMinusAlpha(clampAlpha(Alpha(m))), <<1, 100>>)

\* a fully opaque mask value: the opacity is clamped to 0.99 and the channel
\* 254 is restored to (254 - 252.45) / 0.01 = 155
C8_Witness ==
    /\ op = "applyReverseAlpha"
    /\ inp.alphaMap = <<65535>>
    /\ PixAt(inp.img, 0) = 254
    /\ PixAt(outp, 0) = 155

\* the mask values of the round-trip claim: 0.002 <= max/65535 <= 0.99
InRoundTripRange(max) == max * 1000 >= 2 * 65535 /\ max * 100 <= 99 * 65535

\* every colour channel of the restored pixel is within 1 of the original
RestoredWithinOne ==
    \A ch \in 1..3 :
        LET diff == PixAt(outp, ch - 1) - inp.original[ch]
        IN  diff \in {-1, 0, 1}

\* C9 as stated: compositing an original under a mask value in [0.002, 0.99]
\* and removing it again recovers the original within 1 per channel.
C9_RoundTripWholeRange ==
    (op = "roundTrip" /\ InRoundTripRange(inp.max)) => RestoredWithinOne

\* C9: compositing an original under a mask value a with 0.002 <= a < 2/3
\* and removing it again recovers the original within 1 per channel (the
\* rounding of the composite is magnified by 1/(1 - a), below 3 there).
C9_RoundTripBelowTwoThirds ==
    (op = "roundTrip" /\ InRoundTripRange(inp.max) /\ 3 * inp.max < 2 * 65535)
        => RestoredWithinOne

\* a round trip under an opacity between 1/2 and 2/3 that does not return
\* the original exactly
C9_Witness ==
    /\ op = "roundTrip"
    /\ InRoundTripRange(inp.max)
    /\ 3 * inp.max < 2 * 65535
    /\ 2 * inp.max > 65535
    /\ PixAt(outp, 0) # inp.original[1]

\* every entry of the mask of the last run is below the skip threshold
AllClear == \A i \in DOMAIN inp.alphaMap : inp.alphaMap[i] * 1000 < 2 * 65535

\* C10: when every mask entry of the rectangle is below 0.002, the buffer
\* after any number of runs of the transform holds the bytes it held before
\* the first run.
C10_IdempotentOnClear ==
    (op = "applyReverseAlpha" /\ AllClear) =>
        /\ outp.Rect = inp.first.Rect
        /\ outp.Stride = inp.first.Stride
        /\ outp.base = inp.first.base
        /\ \A o \in DOMAIN outp.patch \cup DOMAIN inp.first.patch :
                PixAt(outp, o) = PixAt(inp.first, o)

\* the transform has run MaxRuns times over a non-empty rectangle whose mask
\* entries are all just below the threshold
C10_Witness ==
    /\ op = "applyReverseAlpha"
    /\ inp.runs = MaxRuns
    /\ Cells # {}
    /\ \A i \in DOMAIN inp.alphaMap : inp.alphaMap[i] = 131

----------------------------------------------------------------------------
(* Engine.RemoveWatermark and the buffers it touches.                      *)

\* the rectangle the presets place in an image with bounds b: 96 wide, 64
\* from the right and bottom edges, when both sides exceed 1024; else 48
\* wide, 32 from the edges
PresetRect(b) ==
    LET large == Dx(b) > 1024 /\ Dy(b) > 1024
        size == IF large THEN 96 ELSE 48
        margin == IF large THEN 64 ELSE 32
    IN  [Min |-> [X |-> b.Max.X - margin - size, Y |-> b.Max.Y - margin - size],
         Max |-> [X |-> b.Max.X - margin, Y |-> b.Max.Y - margin]]

\* the byte at offset o of a buffer laid out like img is a colour channel of
\* a pixel inside r
ColourInside(img, o, r) ==
    LET x == img.Rect.Min.X + ((o % img.Stride) \div 4)
        y == img.Rect.Min.Y + (o \div img.Stride)
    IN  /\ o % 4 # 3
        /\ r.Min.X <= x /\ x < r.Max.X
        /\ r.Min.Y <= y /\ y < r.Max.Y

\* C6: the buffer a successful RemoveWatermark returns differs from the
\* content the transform started from (the copy of the input) only in the
\* R, G, B bytes of pixels inside the watermark rectangle: every byte outside
\* it, and every alpha byte, is the same.
C6_OnlyColourInRect ==
    (op = "RemoveWatermark" /\ outp.err = NoErr) =>
        LET src == CallerImages[inp.img]
            res == heap[outp.img]
        IN  /\ res.Rect = src.Rect
            /\ res.Stride = src.Stride
            /\ res.base = src.base
            /\ \A o \in DOMAIN res.patch \cup DOMAIN src.patch :
                    PixAt(res, o) # PixAt(src, o)
                        => ColourInside(src, o, PresetRect(src.Rect))

\* a removal with the 96 preset has changed bytes of the returned buffer
C6_Witness ==
    /\ op = "RemoveWatermark"
    /\ outp.err = NoErr
    /\ Dx(PresetRect(CallerImages[inp.img].Rect)) = 96
    /\ DOMAIN heap[outp.img].patch # {}

\* C7: whatever calls were made, the caller's images hold what they held at
\* first; a successful call returns a buffer that is none of them and is the
\* only buffer created; a failed call returns no image and leaves no buffer
\* behind.
C7_InputUntouched ==
    /\ \A i \in CallerIds : i \in DOMAIN heap /\ heap[i] = CallerImages[i]
    /\ op = "RemoveWatermark" =>
        IF outp.err = NoErr
        THEN /\ outp.img \notin CallerIds
             /\ DOMAIN heap = CallerIds \cup {outp.img}
        ELSE /\ outp.img = 0
             /\ DOMAIN heap = CallerIds

\* a successful removal whose result differs from the image it was given
C7_Witness ==
    /\ op = "RemoveWatermark"
    /\ outp.err = NoErr
    /\ inp.img \in CallerIds
    /\ heap[outp.img] # heap[inp.img]

----------------------------------------------------------------------------
(* Claims about the entry points.                                          *)

\* the preset of the picture the call was made with, and its rectangle
CalledConfig ==
    DetectWatermarkConfig(Dx(heap[inp.img].Rect), Dy(heap[inp.img].Rect))

CalledRect == calculateWatermarkRect(heap[inp.img].Rect, CalledConfig)

\* the call was made with a picture that has room for its preset
CalledPlaced ==
    /\ inp.img # 0
    /\ Dx(heap[inp.img].Rect) > 0
    /\ Dy(heap[inp.img].Rect) > 0
    /\ CalledRect.err = NoErr

\* the call loaded a mask into cache c
CalledWithMask(c) ==
    /\ CalledPlaced
    /\ CalledConfig.LogoSize \in DOMAIN alphaMaps[c]
    /\ ErrAt(alphaErrs[c], CalledConfig.LogoSize) = NoErr

CalledMaskLen(c) == Len(alphaMaps[c][CalledConfig.LogoSize])

CalledRequired == Dx(CalledRect.rect) * Dy(CalledRect.rect)

\* C11: when the length of the mask differs from the area of the rectangle,
\* DetectWatermark (through scoreWatermark) and Engine.RemoveWatermark return
\* the size mismatch error, no mask entry has been read and no image has been
\* produced; mask entries are read, and an image is returned, only with a mask
\* of exactly that length.
C11_SizeMismatchFirst ==
    /\ (op = "DetectWatermark" /\ CalledWithMask("detectAlphaCache")) =>
          IF CalledMaskLen("detectAlphaCache") # CalledRequired
          THEN /\ outp.err = Err("size mismatch", CalledMaskLen("detectAlphaCache"))
               /\ outp.read = 0
               /\ ~outp.present
          ELSE outp.read \in {0, CalledRequired}
    /\ (op = "DetectWatermark" /\ outp.read > 0) =>
          /\ CalledWithMask("detectAlphaCache")
          /\ outp.read = CalledMaskLen("detectAlphaCache")
    /\ (op = "Engine.RemoveWatermark" /\ CalledWithMask("engine")) =>
          IF CalledMaskLen("engine") # CalledRequired
          THEN /\ outp.err = Err("size mismatch", CalledMaskLen("engine"))
               /\ outp.img = 0
               /\ DOMAIN heap = DOMAIN DetectImages
          ELSE outp.err = NoErr
    /\ (op = "Engine.RemoveWatermark" /\ outp.img # 0) =>
          /\ CalledWithMask("engine")
          /\ CalledMaskLen("engine") = CalledRequired

\* DetectWatermark was called with a mask one row longer than the rectangle
C11_Witness ==
    /\ op = "DetectWatermark"
    /\ CalledWithMask("detectAlphaCache")
    /\ CalledMaskLen("detectAlphaCache") > CalledRequired
    /\ outp.err.kind = "size mismatch"

\* the square of the correlation the call computed, for a correlation # 0
CorrSquared ==
    QMul(QDiv(outp.corr.num, outp.corr.alphaVar), QDiv(outp.corr.num, outp.corr.resVar))

\* the correlation the call computed is above 1/5
CorrOverFifth ==
    /\ outp.corr.alphaVar[1] # 0
    /\ outp.corr.resVar[1] # 0
    /\ outp.corr.num[1] > 0
    /\ 25 * CorrSquared[1] > CorrSquared[2]

\* the luma delta the call computed is above 6
DeltaOverSix == outp.score[1] > 6 * outp.score[2]

\* C12: when DetectWatermark returns no error, present holds exactly when the
\* delta is above 6 and the correlation above 0.20; a series of zero variance
\* makes the correlation 0 and is no error; the score is the delta and the
\* info is the preset size with the resolved rectangle, present or not.
C12_PresentRule ==
    (op = "DetectWatermark" /\ outp.err = NoErr) =>
        /\ outp.present <=> (DeltaOverSix /\ CorrOverFifth)
        /\ outp.corr.zero <=> (outp.corr.alphaVar[1] = 0 \/ outp.corr.resVar[1] = 0)
        /\ outp.corr.zero => ~outp.present
        /\ outp.info = [Size |-> CalledConfig.LogoSize, Position |-> CalledRect.rect]
        /\ outp.read = CalledRequired

\* a delta above 6 with a correlation between 0 and 0.20: not present
C12_Witness ==
    /\ op = "DetectWatermark"
    /\ outp.err = NoErr
    /\ DeltaOverSix
    /\ outp.corr.num[1] > 0
    /\ ~CorrOverFifth
    /\ ~outp.present
    /\ outp.info.Size = 48

\* the other cases of the rule, each reached by some picture: present; a
\* correlation above 0.20 with a delta of at most 6; an opacity series of zero
\* variance; a uniform picture
C12_CasePresent ==
    op = "DetectWatermark" /\ outp.err = NoErr /\ outp.present /\ outp.score = <<7, 1>>

C12_CaseShapeOnly ==
    op = "DetectWatermark" /\ outp.err = NoErr /\ CorrOverFifth /\ ~DeltaOverSix

C12_CaseFlatMask ==
    /\ op = "DetectWatermark"
    /\ outp.err = NoErr
    /\ outp.corr.alphaVar[1] = 0
    /\ outp.corr.resVar[1] # 0

C12_CaseFlatPicture ==
    op = "DetectWatermark" /\ outp.err = NoErr /\ outp.corr.resVar[1] = 0

\* the picture a file holds
ContentOf(data) ==
    [Rect |-> Rect(0, 0, data.Dx, data.Dy), Stride |-> 4 * data.Dx,
     base |-> data.base, patch |-> data.patch]

\* the caller's pictures and, after them, the picture the file data holds
HeapWith(data) ==
    [i \in 1..(Len(DetectImages) + 1) |->
        IF i \in DOMAIN DetectImages THEN DetectImages[i] ELSE ContentOf(data)]

\* what the call returned is what DetectWatermark returns for the picture the
\* file data holds
AgreesWithDetect(data) ==
    \E det \in {DetectWatermark(CacheOf("detectAlphaCache"), HeapWith(data),
                                Len(DetectImages) + 1)} :
        /\ outp.present = det.present
        /\ outp.score = det.score
        /\ outp.info = det.info
        /\ (outp.err = NoErr) <=> (det.err = NoErr)

\* the output of the call is the PNG file of what Engine.RemoveWatermark
\* returns for the picture the file data holds
OutputIsCleaned(data) ==
    \E rem \in {Engine_RemoveWatermark(NewEngine, HeapWith(data), Len(DetectImages) + 1)} :
        /\ rem.err = NoErr
        /\ outp.output = EncodePNGToBytes(rem.heap[rem.img]).data

\* C13: for bytes that hold an image, DetectWatermarkBytes returns the
\* present, score and info of DetectWatermark on that image, and so does
\* RemoveWatermarkBytes, whose output when present is the PNG file of the image
\* Engine.RemoveWatermark returns for it.
C13_BytesAgree ==
    /\ (op = "DetectWatermarkBytes" /\ inp.data.kind = "image") =>
            AgreesWithDetect(inp.data)
    /\ (op = "RemoveWatermarkBytes" /\ inp.data.kind = "image") =>
            /\ AgreesWithDetect(inp.data)
            /\ outp.present => OutputIsCleaned(inp.data)

\* RemoveWatermarkBytes found the mark in a file and returned a PNG file whose
\* pixels differ from those of the input
C13_Witness ==
    /\ op = "RemoveWatermarkBytes"
    /\ inp.data.kind = "image"
    /\ inp.data.format = "jpeg"
    /\ outp.present
    /\ outp.output.kind = "image"
    /\ outp.output.format = "png"
    /\ outp.output.patch # inp.data.patch

\* no bytes, or the empty string
EmptyOutput == IF op = "RemoveWatermarkBase64" THEN EncodeToString(NoBytes) ELSE NoBytes

\* the steps of RemoveWatermarkBytes, in the order of the code
BytesSteps == <<"decode", "detect", "remove", "encode">>

\* the steps the call took inside RemoveWatermarkBytes
StepsInBytes ==
    IF op = "RemoveWatermarkBase64"
    THEN SelectSeq(outp.steps, LAMBDA x : x \notin {"base64", "base64 out"})
    ELSE outp.steps

----------------------------------------------------------------------------
(* Claims about placement in the entry points.                             *)

\* the call was made with an image of positive width and height
CalledPositive ==
    /\ op \in {"DetectWatermark", "Engine.RemoveWatermark"}
    /\ inp.img # 0
    /\ Dx(heap[inp.img].Rect) > 0
    /\ Dy(heap[inp.img].Rect) > 0

TooSmall == Dx(heap[inp.img].Rect) < 80 \/ Dy(heap[inp.img].Rect) < 80

\* the rectangle grown by the band and clipped to the image
CalledOuter == Intersect(Inset(CalledRect.rect, -Band(CalledConfig)), heap[inp.img].Rect)

\* C15: for an image of positive width and height placement fails exactly
\* when the width or the height is below 80, and DetectWatermark and
\* Engine.RemoveWatermark return the out-of-bounds error exactly then; when
\* placement succeeds the band is no wider than either margin, the rectangle
\* and the band around it hold at least one pixel each, and DetectWatermark
\* never returns the insufficient pixels error.
C15_PlacementAndBand ==
    CalledPositive =>
        /\ (CalledRect.err # NoErr) <=> TooSmall
        /\ (outp.err = Err("out of bounds", 0)) <=> TooSmall
        /\ outp.err.kind # "insufficient pixels"
        /\ ~TooSmall =>
                /\ Band(CalledConfig) <= CalledConfig.MarginRight
                /\ Band(CalledConfig) <= CalledConfig.MarginBottom
                /\ CalledOuter.Max = [X |-> CalledRect.rect.Max.X + Band(CalledConfig),
                                      Y |-> CalledRect.rect.Max.Y + Band(CalledConfig)]
                /\ op = "DetectWatermark" =>
                        /\ outp.bgCount = CalledRequired
                        /\ outp.bgCount >= 1
                        /\ outp.outerCount = Dx(CalledOuter) * Dy(CalledOuter) - CalledRequired
                        /\ outp.outerCount >= 1

\* DetectWatermark on an image 80 pixels wide has counted the pixels of the
\* rectangle and of a band that is clipped at the left edge of the image
C15_Witness ==
    /\ CalledPositive
    /\ op = "DetectWatermark"
    /\ Dx(heap[inp.img].Rect) = 80
    /\ Dy(heap[inp.img].Rect) > sizeThreshold
    /\ outp.bgCount = 48 * 48
    /\ outp.outerCount = 64 * 80 - 48 * 48
    /\ outp.err = NoErr

----------------------------------------------------------------------------
(* Claims about the default engine.                                        *)

\* the Engines constructed by the package for defaultEngine.eng
DefaultEngines == {e \in EnginePool : made[e] = "package"}

\* the Engines constructed by callers with NewEngine
OwnEngines == {e \in EnginePool : made[e] = "caller"}

\* C16: whatever the calls of the package-level RemoveWatermark and however
\* they interleave, the package constructs at most one Engine, and only once
\* a call has asked for it; every call runs on that Engine; no Engine loads a
\* mask more than once; an Engine nobody has constructed holds nothing, and a
\* mask returned by an Engine was loaded by that Engine itself.
C16_DefaultEngineOnce ==
    /\ Cardinality(DefaultEngines) <= 1
    /\ defaultEngine.done => DefaultEngines = {defaultEngine.eng}
    /\ DefaultEngines # {} =>
            (used # {} \/ \E t \in Goroutines : pc[t] \in {"defaultUnlock", "dispatch"})
    /\ used \subseteq DefaultEngines
    /\ \A t \in Goroutines :
            frame[t].cache # "none" => frame[t].cache \in DefaultEngines
    /\ \A e \in EnginePool, k \in onceKeys : loads[e][k] <= 1
    /\ \A e \in EnginePool :
            made[e] = "unmade" =>
                /\ alphaMaps[e] = EmptyMap
                /\ \A k \in onceKeys : loads[e][k] = 0 /\ results[e][k] = {}
    /\ \A e \in EnginePool, k \in onceKeys :
            \A r \in results[e][k] : r.err = NoErr => loads[e][k] = 1

\* two goroutines are inside calls on the one default engine, which has
\* loaded a mask once, and two Engines made by callers have each loaded the
\* same mask themselves
C16_Witness ==
    /\ Cardinality(DefaultEngines) = 1
    /\ \A t \in {1, 2} : pc[t] \in {"readErr", "readMap"}
    /\ \A t \in {1, 2} : frame[t].cache = defaultEngine.eng
    /\ Cardinality(OwnEngines) = 2
    /\ \E k \in onceKeys :
            \A e \in EnginePool : loads[e][k] = 1 /\ k \in DOMAIN alphaMaps[e]

====
